---- MODULE Spec2Model ----
(***************************************************************************)
(* Scan orchestration engine: scan life cycle and dispatch, the streaming  *)
(* batched writer, and the snapshot + asset sink.                          *)
(*                                                                         *)
(* Several specifications share one set of variables; each leaves the      *)
(* other subsystems' variables at their initial values:                    *)
(*   SpecLifecycle  create_scans, dispatcher thread, stop, orchestrator    *)
(*   SpecStream     one streaming tool run (parser -> batches -> sink)     *)
(*   SpecSink       save_and_sync / _process_batch writes with soft delete *)
(*   SpecAsset      bulk_upsert of WebSite / Endpoint asset rows           *)
(*   SpecMerge      bulk_merge_website_fields on stored rows               *)
(*   SpecRace       two scans upserting the same rows concurrently         *)
(*   SpecProvider   the Inventory provider's iterators and the blacklist   *)
(*   SpecExport     export_urls_with_fallback                              *)
(*   SpecStageExport the export tasks of the directory and site stages     *)
(*   SpecStageInput initiate_scan_flow invoking a stage flow               *)
(*   SpecQuick      the snapshot provider next to the inventory provider   *)
(*   SpecDirs       results directories of created scan rows               *)
(*   SpecDelete     two-phase delete and reads through Scan.objects        *)
(*   SpecStageRun   one run of port_scan / site_scan / directory_scan      *)
(*   SpecWorker     worker heartbeat and destroy                           *)
(*   SpecTimeout    the timeout a stage hands to its tool task             *)
(*   SpecLazy       lazy loading of the blacklist by one provider          *)
(*   SpecSinkSteps  save_and_sync statement by statement, with retries     *)
(*   SpecEntry      from the scan views to the orchestrator's provider     *)
(*   SpecLifecycleFair  SpecLifecycle with a dispatcher thread that runs   *)
(***************************************************************************)
EXTENDS Integers, Sequences, FiniteSets

VARIABLES
    \* ---- scan life cycle (one scan row) ----
    status,        \* Scan.status, "none" until create_scans persisted the row
    dispatch,      \* position of the dispatcher thread for this scan
    flow,          \* position of initiate_scan_flow on the worker
    stage,         \* stage -> "pending" | "running" | "ok" | "failed"
    container,     \* TRUE once a container id is recorded on the scan row
    killReq,       \* a cancellation was requested and has not taken effect yet
    stopCalls,     \* number of POST /scans/{id}/stop/ requests served
    stopResponse,  \* HTTP status of the last stop request ("" before the first)
    error_message, \* Scan.error_message ("" while none was stored)
    \* ---- one streaming tool run ----
    task,          \* "urls" (run_and_stream_save_urls) | "xingfinger"
    batch_size,    \* the task's batch_size argument
    yielded,       \* records the parser has yielded so far, in order
    batch,         \* the writer's in-memory batch
    flushed,       \* the batches handed to the sink so far, in order
    persisted,     \* records the sink has stored, in order
    failed_batches,\* numbers of the batches recorded as failed
    spc,           \* "reading" | "saving" | "done"
    tail,          \* TRUE while the batch being saved is the end-of-stream tail
    attempt,       \* loop variable of _save_batch_with_retry
    calls,         \* _save_batch calls made for the batch being saved
    lastOutcome,   \* outcome of the last _save_batch call for that batch
    waits,         \* back-off sleeps (seconds) taken for the batch being saved
    result,        \* how the task ended ("" while it runs)
    \* ---- snapshot + asset sink ----
    sinkPath,      \* "endpoint" | "hostport" | "fingerprint": the stage writing
    deleted,       \* scans whose deleted_at is set (soft-deleted)
    snapRows,      \* snapshot table: (scan, natural key) -> rows with that key
    assetRows,     \* asset table: (target, natural key) -> rows with that key
    submitted,     \* (scan, key) pairs handed to save_snapshots so far
    seenDup,       \* kinds of repetition handed to save_snapshots so far
    sinkTick,      \* flips with every batch handed to the sink
    sinkScan,      \* scan of the last batch handed to the sink
    sinkOutcome,   \* how the sink dealt with that batch
    \* ---- WebSite / Endpoint asset rows of one target ----
    webTab,        \* natural key (url) -> asset rows stored under it
    assetTick,     \* flips with every asset write (upsert or merge call)
    assetOp,       \* "upsert" | "merge": the last asset write
    assetOutcome,  \* "ok" | "raised": how that write ended
    batchDup,      \* keys occurring more than once in the last batch
    batchTech,     \* key -> union of the tech values of the last batch
    everTech,      \* key -> union of the tech values upserted so far
    lastTitle,     \* key -> title of the last record upserted for the key
    rewritten,     \* keys upserted by more than one call
    \* ---- two scans upserting WebSite rows concurrently ----
    txPc,          \* scan -> "idle" | "exec" | "committed" | "aborted"
    txBatch,       \* scan -> the keys of the batch its statement upserts
    txPos,         \* scan -> index of the next row its statement handles
    rowLock,       \* key -> scan holding the uncommitted row ("" if none)
    commitLog,     \* scans in the order their transactions committed
    \* ---- Inventory provider of one target and the URL export ----
    blacklistRules,\* the rules BlacklistService.get_rules returns for the target
    targetRow,     \* the Target row: [type, name], or NoTarget
    inventory,     \* stored assets: subdomains, host_ports, websites, endpoints
    iterCalled,    \* the provider iterator consumed last ("" before the first)
    emitted,       \* the values that iterator yielded
    exportSources, \* the `sources` argument export_urls_with_fallback is called with
    exportResult,  \* what the call returned, and the lines it left in the file
    exportTask,    \* the stage export task that ran last ("" if none)
    \* ---- the provider of one scan and the stage inputs it feeds ----
    scan_mode,     \* Scan.scan_mode of the scan the provider is created for
    provScan,      \* the scan id of that scan
    snapshots,     \* scan id -> the snapshot rows stored for it
    stageRan,      \* the stage flow initiate_scan_flow invoked last ("" if none)
    stageOutcome,  \* "ok" | "raised": how its export step ended
    stageInput,    \* the input lines the stage's export produced
    \* ---- results directories of the scan rows ----
    now,           \* the wall clock, in seconds
    resultsDirs,   \* Scan.results_dir of the rows created so far, in order
    \* ---- two-phase delete of scan rows ----
    scanTable,     \* the stored Scan rows: [id, deleted_at]
    hardDeleteQueue, \* ids handed to the background hard-delete job
    deleteRequested, \* ids delete_scans_two_phase has soft-deleted so far
    readResult,    \* ids the last read through Scan.objects returned
    scanOp,        \* the operation that ran last ("" before the first)
    \* ---- one run of a stage flow (port_scan, site_scan, directory_scan) ----
    runFlow,       \* the stage flow that runs
    enabled_tools, \* the names of the enabled tools, in the order of the dict
    tool_config,   \* position of a tool -> its max_workers setting (0: none)
    site_count,    \* the number of input lines the export step writes
    runPc,         \* "export" | "tools" | "batches" | "done" ("" while idle)
    toolIdx,       \* position of the tool the loop over enabled_tools is at
    tool_stats,    \* names of the tools whose run returned a result
    failed_tools,  \* names of the tools recorded as failed, in order
    toolRuns,      \* names of the tools of which a process was started
    processed_records, \* rows counted so far (total_directories for directories)
    scan_params_list,  \* directory scan: the sites whose command was built
    batch_start,   \* directory scan: loop variable of the batch loop
    batch_params,  \* directory scan: the sites of the batch being executed
    submittedTasks, \* directory scan: tasks of the batch submitted so far
    inflight,      \* directory scan: sites whose task runs now
    taskFailed,    \* directory scan: sites of the batch whose task raised
    directories_found, \* directory scan: rows of the batch's finished tasks
    processed_sites,   \* directory scan: processed_sites_count
    failed_sites,  \* directory scan: the failed_sites list
    stageReturn,   \* what the flow returned (NoReturn before it did)
    \* ---- one worker node: heartbeat and destroy requests ----
    workerExists,  \* the WorkerNode row is stored
    workerStatus,  \* WorkerNode.status of the row
    loadStored,    \* the heartbeat store holds a load entry for the worker
    hbPc,          \* position of the heartbeat request being served
    hbSeen,        \* worker.status as get_object loaded it for that request
    heartbeatsDone,\* heartbeat requests answered with {'status': 'ok'}
    destroyPc,     \* position of the destroy request
    \* ---- the timeout of one tool run ----
    timeoutFlow,   \* the stage flow that computes the timeout ("" while idle)
    timeoutOption, \* the tool's timeout option: [auto, seconds]
    line_count,    \* lines of the file the dynamic timeout is derived from
    timeoutPc,     \* "config" | "run" ("" while idle)
    toolTimeout,   \* the timeout the tool task is called with
    \* ---- lazy loading of the blacklist by one DatabaseTargetProvider ----
    ruleStore,     \* the rules the rule store holds for the target now
    filterLoaded,  \* provider._blacklist_filter is not None
    getRulesCalls, \* calls of BlacklistService().get_rules by the provider
    iterCalls,     \* iterator calls of the provider so far
    ruleEdits,     \* edits of the target's rules so far
    usedRules,     \* the rule sets the iterator calls filtered with
    \* ---- one save_and_sync call, statement by statement ----
    sinkPc,        \* position of the sink call: idle, call, checked, snapshots_saved, done, failed
    sinkItems,     \* the batch in hand
    sinkAttempt,   \* loop variable of _save_batch_with_retry for this batch
    sinkCalls,     \* batches handed to the sink so far
    sinkEvents,    \* what happened to the batch in hand before it was saved
    preSnap,       \* the snapshot table when the batch was first submitted
    preAsset,      \* the asset table when the batch was first submitted
    \* ---- from the scan views to the provider of the orchestrator ----
    entryPoint,    \* the view the scan request came through
    entryPc,       \* request, created (row persisted), running (provider created)
    providerKind   \* the provider class _create_provider instantiated

lifeVars == <<status, dispatch, flow, stage, container, killReq, stopCalls, stopResponse,
              error_message>>

streamVars == <<task, batch_size, yielded, batch, flushed, persisted, failed_batches,
                spc, tail, attempt, calls, lastOutcome, waits, result>>

sinkVars == <<sinkPath, deleted, snapRows, assetRows, submitted, seenDup,
              sinkTick, sinkScan, sinkOutcome>>

assetVars == <<webTab, assetTick, assetOp, assetOutcome, batchDup, batchTech,
               everTech, lastTitle, rewritten>>

raceVars == <<txPc, txBatch, txPos, rowLock, commitLog>>

provVars == <<blacklistRules, targetRow, inventory, iterCalled, emitted,
              exportSources, exportResult, exportTask>>

quickVars == <<scan_mode, provScan, snapshots, stageRan, stageOutcome, stageInput>>

dirVars == <<now, resultsDirs>>

delVars == <<scanTable, hardDeleteQueue, deleteRequested, readResult, scanOp>>

runVars == <<runFlow, enabled_tools, tool_config, site_count, runPc, toolIdx,
             tool_stats, failed_tools, toolRuns, processed_records,
             scan_params_list, batch_start, batch_params, submittedTasks, inflight,
             taskFailed, directories_found, processed_sites, failed_sites,
             stageReturn>>

workerVars == <<workerExists, workerStatus, loadStored, hbPc, hbSeen, heartbeatsDone,
                destroyPc>>

timeoutVars == <<timeoutFlow, timeoutOption, line_count, timeoutPc, toolTimeout>>

lazyVars == <<ruleStore, filterLoaded, getRulesCalls, iterCalls, ruleEdits, usedRules>>

stepVars == <<sinkPc, sinkItems, sinkAttempt, sinkCalls, sinkEvents, preSnap, preAsset>>

entryVars == <<entryPoint, entryPc, providerKind>>

newVars == <<workerVars, timeoutVars, lazyVars, stepVars, entryVars>>

lateVars == <<delVars, runVars, newVars>>

extraVars == <<quickVars, dirVars, lateVars>>

vars == <<lifeVars, streamVars, sinkVars, assetVars, raceVars, provVars, extraVars>>

nonLifeVars   == <<streamVars, sinkVars, assetVars, raceVars, provVars, extraVars>>
nonStreamVars == <<lifeVars, sinkVars, assetVars, raceVars, provVars, extraVars>>
nonSinkVars   == <<lifeVars, streamVars, assetVars, raceVars, provVars, extraVars>>
nonAssetVars  == <<lifeVars, streamVars, sinkVars, raceVars, provVars, extraVars>>
nonRaceVars   == <<lifeVars, streamVars, sinkVars, provVars, extraVars>>
nonProvVars   == <<lifeVars, streamVars, sinkVars, assetVars, raceVars, extraVars>>
nonQuickVars  == <<lifeVars, streamVars, sinkVars, assetVars, raceVars, dirVars, lateVars>>
nonDirVars    == <<lifeVars, streamVars, sinkVars, assetVars, raceVars, provVars, quickVars,
                   lateVars>>
earlyVars     == <<lifeVars, streamVars, sinkVars, assetVars, raceVars, provVars, quickVars,
                   dirVars>>
nonDelVars    == <<earlyVars, runVars, newVars>>
nonRunVars    == <<earlyVars, delVars, newVars>>
oldVars       == <<earlyVars, delVars, runVars>>
nonWorkerVars == <<oldVars, timeoutVars, lazyVars, stepVars, entryVars>>
nonTimeoutVars == <<oldVars, workerVars, lazyVars, stepVars, entryVars>>
\* everything but the scan row's mode, its provider and the entry point
nonEntryVars  == <<lifeVars, streamVars, sinkVars, assetVars, raceVars, provVars, dirVars,
                   delVars, runVars, workerVars, timeoutVars, lazyVars, stepVars>>
\* everything but the sink tables and the sink call in progress
nonStepVars   == <<lifeVars, streamVars, assetVars, raceVars, provVars, quickVars, dirVars,
                   delVars, runVars, workerVars, timeoutVars, lazyVars, entryVars>>
\* everything but the provider and its lazily loaded blacklist
nonLazyVars   == <<lifeVars, streamVars, sinkVars, assetVars, raceVars, quickVars, dirVars,
                   delVars, runVars, workerVars, timeoutVars, stepVars, entryVars>>

(***************************************************************************)
(* Bounds                                                                  *)
(***************************************************************************)
NumSeq == 2      \* stages in the sequential group of the plan
NumPar == 2      \* stages in the parallel group of the plan
MaxStops == 2    \* stop requests served in one behaviour
MaxRecords == 5  \* records one tool run yields at most
MaxBatchSize == 2 \* largest batch_size a run is started with
MaxBatchLen == 2 \* records in one batch handed to the sink
MaxAssetBatch == 2 \* records in one asset upsert or fingerprint merge
MaxRules == 2    \* blacklist rules of one target
MaxAssets == 2   \* stored assets of one target, over all four tables
MaxSources == 3  \* entries of the `sources` list of one export
MaxTargets == 2  \* targets of one create_scans call
MaxScanRows == 4 \* scan rows created in one behaviour
MaxClock == 1    \* seconds the wall clock advances in one behaviour
MaxScanIds == 3  \* scan rows of the two-phase delete model
MaxSites == 3    \* input lines a stage's export step writes
MaxWorkers == 2  \* largest max_workers a tool's configuration sets
MaxHeartbeats == 2 \* heartbeat requests of the worker in one behaviour
MaxIterCalls == 3  \* iterator calls of one provider instance
MaxRuleEdits == 1  \* edits of the target's rules while the provider lives
MaxSinkCalls == 1  \* batches handed to the statement-by-statement sink

NoTarget == [type |-> "none", name |-> <<>>]  \* TargetService.get_target found no row

\* no export_urls_with_fallback call has been made
NoExport ==
    [outcome |-> "", source |-> "", total_count |-> 0, tried_sources |-> <<>>,
     lines |-> {}]

Scans == {"s1", "s2"}   \* scan ids
Keys  == {"k1", "k2"}   \* natural keys (url, or host/ip/port)
Vals  == {"v1", "v2"}   \* values of a row's scalar fields (title, ...)

(***************************************************************************)
(* Scan status values and the life-cycle helpers                           *)
(***************************************************************************)
INITIATED == "initiated"
RUNNING   == "running"
COMPLETED == "completed"
FAILED    == "failed"
CANCELLED == "cancelled"

FINAL_STATUSES == {COMPLETED, FAILED, CANCELLED}

\* ScanService.update_status: unconditional write of the status column.
update_status(cur, new) == new

\* ScanService.update_status_if_match: write only when the row still holds
\* the expected status.
update_status_if_match(cur, expected, new) == IF cur = expected THEN new ELSE cur

(***************************************************************************)
(* Execution plan: group 1 sequential, group 2 parallel.                   *)
(***************************************************************************)
SeqStages == 1..NumSeq
ParStages == (NumSeq + 1)..(NumSeq + NumPar)
Stages    == SeqStages \cup ParStages

get_execution_stages == <<[mode |-> "sequential", stages |-> SeqStages],
                          [mode |-> "parallel",   stages |-> ParStages]>>

Finished(st) == stage[st] \in {"ok", "failed"}

\* A group that counts as over when one of its stages has finished.
GroupDoneAny(g) == \E st \in get_execution_stages[g].stages : Finished(st)

GroupDone(g) == \A st \in get_execution_stages[g].stages : Finished(st)

\* The group the orchestrator's loop is in: the first with an unfinished stage.
CurrentGroup ==
    IF \E g \in 1..Len(get_execution_stages) : ~GroupDone(g)
    THEN CHOOSE g \in 1..Len(get_execution_stages) :
            /\ ~GroupDone(g)
            /\ \A h \in 1..(g - 1) : GroupDone(h)
    ELSE 0

FlowActive == flow \in {"scheduled", "setup", "exec"}

(***************************************************************************)
(* create_scans: persist the row as INITIATED and start the dispatcher     *)
(* thread.                                                                 *)
(***************************************************************************)
CreateScans ==
    /\ status = "none"
    /\ status' = INITIATED
    /\ dispatch' = "queued"
    /\ UNCHANGED <<flow, stage, container, killReq, stopCalls, stopResponse>>
    /\ UNCHANGED <<error_message, nonLifeVars>>

(***************************************************************************)
(* _distribute_scans_to_workers, one iteration of its loop.                *)
(***************************************************************************)
\* distributor.execute_scan_flow(...) is entered (a blocking remote call).
DispatchCall ==
    /\ dispatch = "queued"
    /\ dispatch' = "calling"
    /\ UNCHANGED <<status, flow, stage, container, killReq, stopCalls, stopResponse>>
    /\ UNCHANGED <<error_message, nonLifeVars>>

\* execute_scan_flow returned success: the flow is now scheduled on a worker.
DispatchReturnOk ==
    /\ dispatch = "calling"
    /\ dispatch' = "recording"
    /\ flow' = "scheduled"
    /\ UNCHANGED <<status, stage, container, killReq, stopCalls, stopResponse>>
    /\ UNCHANGED <<error_message, nonLifeVars>>

\* error_message=f'提交任务失败: {e}': never empty, whatever e is.
SubmitFailedMessage == "submit_failed"

\* An except branch that only logs.
DispatchFailureIgnored(cur) == cur

\* The except branch: whatever reached it, the row is set to FAILED.
DispatchFailureHandler(cur) == update_status(cur, FAILED)

\* execute_scan_flow returned success = False or raised.
DispatchReturnFail ==
    /\ dispatch = "calling"
    /\ dispatch' = "done"
    /\ \/ /\ status' = DispatchFailureHandler(status)
          /\ error_message' = SubmitFailedMessage
       \/ /\ status' = status       \* update_status itself raised DatabaseError
          /\ error_message' = error_message
    /\ UNCHANGED <<flow, stage, container, killReq, stopCalls, stopResponse>>
    /\ UNCHANGED nonLifeVars

\* append_container_id / update_worker after a successful call.
DispatchRecord ==
    /\ dispatch = "recording"
    /\ dispatch' = "done"
    /\ \/ /\ container' = TRUE
          /\ status' = status
          /\ error_message' = error_message
       \/ /\ container' = container  \* recording raised: the except branch runs
          /\ status' = DispatchFailureHandler(status)
          /\ error_message' = SubmitFailedMessage
    /\ UNCHANGED <<flow, stage, killReq, stopCalls, stopResponse>>
    /\ UNCHANGED nonLifeVars

(***************************************************************************)
(* Stop: ScanViewSet.stop over ScanControlService.stop_scan.               *)
(***************************************************************************)
\* stop_scan's decision: only a RUNNING or INITIATED scan is cancelled.
StopAllowed(cur) == cur \in {RUNNING, INITIATED}

\* A view that reports success whatever stop_scan returned.
StopViewAlwaysOk(success, statusNow) == "200"

\* The view's answer from stop_scan's success flag and the status it re-reads.
StopView(success, statusNow) ==
    IF success THEN "200"
    ELSE IF statusNow \notin {RUNNING, INITIATED} THEN "400"
    ELSE "500"

Stop ==
    /\ status # "none"
    /\ stopCalls < MaxStops
    /\ stopCalls' = stopCalls + 1
    /\ \/ /\ StopAllowed(status)
          /\ status' = update_status(status, CANCELLED)
          /\ killReq' = (killReq \/ (container /\ FlowActive))
          /\ stopResponse' = StopView(TRUE, status')
       \/ /\ ~StopAllowed(status)
          /\ UNCHANGED <<status, killReq>>
          /\ stopResponse' = StopView(FALSE, status)
       \/ /\ StopAllowed(status)      \* stop_scan failed for another reason
          /\ UNCHANGED <<status, killReq>>
          /\ stopResponse' = StopView(FALSE, status)
    /\ UNCHANGED <<dispatch, flow, stage, container>>
    /\ UNCHANGED <<error_message, nonLifeVars>>

\* The requested termination of the worker's process tree takes effect.
KillEffective ==
    /\ killReq
    /\ killReq' = FALSE
    /\ flow' = IF FlowActive THEN "killed" ELSE flow
    /\ UNCHANGED <<status, dispatch, stage, container, stopCalls, stopResponse>>
    /\ UNCHANGED <<error_message, nonLifeVars>>

(***************************************************************************)
(* initiate_scan_flow on the worker.                                       *)
(***************************************************************************)
\* on_running callback of the flow: INITIATED -> RUNNING.
FlowRunning ==
    /\ flow = "scheduled"
    /\ flow' = "setup"
    /\ status' = update_status_if_match(status, INITIATED, RUNNING)
    /\ UNCHANGED <<dispatch, stage, container, killReq, stopCalls, stopResponse>>
    /\ UNCHANGED <<error_message, nonLifeVars>>

\* Parameter checks, workspace, provider, plan, init_stage_progress.
FlowSetupOk ==
    /\ flow = "setup"
    /\ flow' = "exec"
    /\ UNCHANGED <<status, dispatch, stage, container, killReq, stopCalls, stopResponse>>
    /\ UNCHANGED <<error_message, nonLifeVars>>

\* The set-up raised: the flow fails, on_failure marks the scan FAILED.
FlowSetupRaise ==
    /\ flow = "setup"
    /\ flow' = "raised"
    /\ status' = IF status \in FINAL_STATUSES THEN status ELSE FAILED
    /\ error_message' = IF status \in FINAL_STATUSES THEN error_message ELSE "flow_failed"
    /\ UNCHANGED <<dispatch, stage, container, killReq, stopCalls, stopResponse>>
    /\ UNCHANGED nonLifeVars

\* A loop that does not wait for the stage before.
SeqMayInvokeAny(st) == stage[st] = "pending"

\* What _execute_sequential_flows looks at before invoking the next stage.
SeqMayInvoke(st) ==
    /\ stage[st] = "pending"
    /\ \A other \in SeqStages : other < st => Finished(other)

\* _execute_sequential_flows: flow_func(**flow_kwargs) for the next stage.
SeqInvoke(st) ==
    /\ flow = "exec"
    /\ CurrentGroup # 0
    /\ get_execution_stages[CurrentGroup].mode = "sequential"
    /\ st \in get_execution_stages[CurrentGroup].stages
    /\ SeqMayInvoke(st)
    /\ stage' = [stage EXCEPT ![st] = "running"]
    /\ UNCHANGED <<status, dispatch, flow, container, killReq, stopCalls, stopResponse>>
    /\ UNCHANGED <<error_message, nonLifeVars>>

\* _execute_parallel_flows: every stage of the group is submitted.
ParSubmit ==
    /\ flow = "exec"
    /\ CurrentGroup # 0
    /\ get_execution_stages[CurrentGroup].mode = "parallel"
    /\ \A st \in get_execution_stages[CurrentGroup].stages : stage[st] = "pending"
    /\ stage' = [st \in Stages |->
                    IF st \in get_execution_stages[CurrentGroup].stages
                    THEN "running" ELSE stage[st]]
    /\ UNCHANGED <<status, dispatch, flow, container, killReq, stopCalls, stopResponse>>
    /\ UNCHANGED <<error_message, nonLifeVars>>

\* A loop that lets a stage's exception leave the orchestrator.
StageExceptionPropagates(pc) == "raised"

\* except Exception as e: the failure is recorded and the loop goes on.
OnStageException(pc) == pc

\* A stage function returns or raises; either way its result is recorded.
StageReturn(st, ok) ==
    /\ flow = "exec"
    /\ stage[st] = "running"
    /\ stage' = [stage EXCEPT ![st] = IF ok THEN "ok" ELSE "failed"]
    /\ flow' = IF ok THEN flow ELSE OnStageException(flow)
    /\ UNCHANGED <<status, dispatch, container, killReq, stopCalls, stopResponse>>
    /\ UNCHANGED <<error_message, nonLifeVars>>

\* The loop over the groups is over: the flow returns, on_completion runs.
FlowComplete ==
    /\ flow = "exec"
    /\ CurrentGroup = 0
    /\ flow' = "done"
    /\ status' = update_status_if_match(status, RUNNING, COMPLETED)
    /\ UNCHANGED <<dispatch, stage, container, killReq, stopCalls, stopResponse>>
    /\ UNCHANGED <<error_message, nonLifeVars>>

(***************************************************************************)
(* Life-cycle specification                                                *)
(***************************************************************************)
LifeStart ==
    /\ status = "none"
    /\ dispatch = "none"
    /\ flow = "absent"
    /\ stage = [st \in Stages |-> "pending"]
    /\ container = FALSE
    /\ killReq = FALSE
    /\ stopCalls = 0
    /\ stopResponse = ""
    /\ error_message = ""

\* No tool run is in progress.
StreamIdle ==
    /\ task = "urls"
    /\ batch_size = 1
    /\ yielded = <<>>
    /\ batch = <<>>
    /\ flushed = <<>>
    /\ persisted = <<>>
    /\ failed_batches = <<>>
    /\ spc = "done"
    /\ tail = FALSE
    /\ attempt = 0
    /\ calls = 0
    /\ lastOutcome = ""
    /\ waits = <<>>
    /\ result = ""

\* Every scan of the model belongs to the same target.
TargetOf(scan) == "t1"

Slots      == Scans \X Keys
AssetSlots == {TargetOf(scan) : scan \in Scans} \X Keys

\* Nothing has been handed to the sink; both tables are empty.
SinkIdle ==
    /\ sinkPath = "endpoint"
    /\ deleted = {}
    /\ snapRows = [slot \in Slots |-> <<>>]
    /\ assetRows = [slot \in AssetSlots |-> <<>>]
    /\ submitted = {}
    /\ seenDup = {}
    /\ sinkTick = FALSE
    /\ sinkScan = ""
    /\ sinkOutcome = ""

\* No asset row has been written.
AssetIdle ==
    /\ webTab = [k \in Keys |-> <<>>]
    /\ assetTick = FALSE
    /\ assetOp = ""
    /\ assetOutcome = ""
    /\ batchDup = {}
    /\ batchTech = [k \in Keys |-> {}]
    /\ everTech = [k \in Keys |-> {}]
    /\ lastTitle = [k \in Keys |-> ""]
    /\ rewritten = {}

\* No upsert transaction is open.
RaceIdle ==
    /\ txPc = [t \in Scans |-> "idle"]
    /\ txBatch = [t \in Scans |-> <<>>]
    /\ txPos = [t \in Scans |-> 1]
    /\ rowLock = [k \in Keys |-> ""]
    /\ commitLog = <<>>

\* The provider has not been used: no rule, no stored asset, nothing emitted.
ProvIdle ==
    /\ blacklistRules = {}
    /\ targetRow = NoTarget
    /\ inventory = [subdomains |-> {}, host_ports |-> {}, websites |-> {},
                    endpoints |-> {}]
    /\ iterCalled = ""
    /\ emitted = {}
    /\ exportSources = <<>>
    /\ exportResult = NoExport
    /\ exportTask = ""

FULL == "full"     \* Scan.ScanMode.FULL
QUICK == "quick"   \* Scan.ScanMode.QUICK

NoSnapshots ==
    [s \in Scans |-> [subdomains |-> {}, host_ports |-> {}, websites |-> {},
                      endpoints |-> {}]]

\* No stage has been invoked; the scan is a full scan without snapshot rows.
QuickIdle ==
    /\ scan_mode = FULL
    /\ provScan = "s1"
    /\ snapshots = NoSnapshots
    /\ stageRan = ""
    /\ stageOutcome = ""
    /\ stageInput = {}

\* No scan row has been created.
DirIdle ==
    /\ now = 0
    /\ resultsDirs = <<>>

\* No scan row is stored and nothing was deleted or read.
DelIdle ==
    /\ scanTable = {}
    /\ hardDeleteQueue = {}
    /\ deleteRequested = {}
    /\ readResult = {}
    /\ scanOp = ""

NoReturn ==
    [raised |-> FALSE, success |-> FALSE, rows |-> 0, successful |-> {},
     failed |-> <<>>, processed_sites |-> 0, failed_sites_count |-> 0]

\* No stage flow runs.
RunIdle ==
    /\ runFlow = ""
    /\ enabled_tools = <<>>
    /\ tool_config = <<>>
    /\ site_count = 0
    /\ runPc = ""
    /\ toolIdx = 1
    /\ tool_stats = {}
    /\ failed_tools = <<>>
    /\ toolRuns = {}
    /\ processed_records = 0
    /\ scan_params_list = <<>>
    /\ batch_start = 0
    /\ batch_params = <<>>
    /\ submittedTasks = 0
    /\ inflight = {}
    /\ taskFailed = {}
    /\ directories_found = 0
    /\ processed_sites = 0
    /\ failed_sites = <<>>
    /\ stageReturn = NoReturn

\* The worker is registered and no request for it is being served.
WorkerIdle ==
    /\ workerExists = TRUE
    /\ workerStatus = "pending"
    /\ loadStored = FALSE
    /\ hbPc = "idle"
    /\ hbSeen = ""
    /\ heartbeatsDone = 0
    /\ destroyPc = "idle"

\* No timeout is being computed.
TimeoutIdle ==
    /\ timeoutFlow = ""
    /\ timeoutOption = [auto |-> TRUE, seconds |-> 0]
    /\ line_count = 0
    /\ timeoutPc = ""
    /\ toolTimeout = 0

\* No provider instance with a lazily loaded blacklist is in use.
LazyIdle ==
    /\ ruleStore = {}
    /\ filterLoaded = FALSE
    /\ getRulesCalls = 0
    /\ iterCalls = 0
    /\ ruleEdits = 0
    /\ usedRules = {}

\* No statement-by-statement sink call is in progress.
StepIdle ==
    /\ sinkPc = "idle"
    /\ sinkItems = <<>>
    /\ sinkAttempt = 0
    /\ sinkCalls = 0
    /\ sinkEvents = {}
    /\ preSnap = <<>>
    /\ preAsset = <<>>

\* No scan request is on its way from a view to the orchestrator.
EntryIdle ==
    /\ entryPoint = ""
    /\ entryPc = ""
    /\ providerKind = ""

NewIdle == WorkerIdle /\ TimeoutIdle /\ LazyIdle /\ StepIdle /\ EntryIdle

LateIdle == DelIdle /\ RunIdle /\ NewIdle

ExtraIdle == QuickIdle /\ DirIdle /\ LateIdle

LifeInit == LifeStart /\ StreamIdle /\ SinkIdle /\ AssetIdle /\ RaceIdle /\ ProvIdle /\ ExtraIdle

LifeNext ==
    \/ CreateScans
    \/ DispatchCall
    \/ DispatchReturnOk
    \/ DispatchReturnFail
    \/ DispatchRecord
    \/ Stop
    \/ KillEffective
    \/ FlowRunning
    \/ FlowSetupOk
    \/ FlowSetupRaise
    \/ \E st \in Stages : SeqInvoke(st)
    \/ ParSubmit
    \/ \E st \in Stages, ok \in BOOLEAN : StageReturn(st, ok)
    \/ FlowComplete

SpecLifecycle == LifeInit /\ [][LifeNext]_vars

(***************************************************************************)
(* Life-cycle claims                                                       *)
(***************************************************************************)
\* C1: once the scan's status is COMPLETED, FAILED or CANCELLED, no step of
\* any operation changes it.
C1_TerminalStatusIsFinal ==
    [][(status \in FINAL_STATUSES => (status' = status))]_vars

\* C2: a stop request turns the status into CANCELLED only from RUNNING or
\* INITIATED; served for a scan that is already COMPLETED, FAILED or
\* CANCELLED it answers with a failure and leaves the status as it was.
C2_StopOnlyFromActive ==
    [][stopCalls' # stopCalls =>
        /\ (status' # status => status \in {RUNNING, INITIATED} /\ status' = CANCELLED)
        /\ (status \in FINAL_STATUSES => status' = status /\ stopResponse' # "200")
      ]_vars

\* A second stop request was refused for a scan the first one cancelled.
C2_Witness ==
    /\ stopCalls = 2
    /\ status = CANCELLED
    /\ stopResponse = "400"

\* C3: once the scan has been cancelled in the middle of a run (the
\* orchestrator is executing its plan and some stage has been started), the
\* orchestrator starts no further stage: a stage that is pending stays pending.
C3_NoStageStartsAfterCancel ==
    [][(status = CANCELLED /\ flow = "exec" /\ \E st \in Stages : stage[st] # "pending") =>
        (\A st \in Stages : stage[st] = "pending" => stage'[st] = "pending")]_vars

(***************************************************************************)
(* One streaming tool run: parser -> batches -> sink.                      *)
(* run_and_stream_save_urls_task ("urls") and                              *)
(* run_xingfinger_and_stream_update_tech_task ("xingfinger").              *)
(***************************************************************************)
max_retries == 3

RECURSIVE Pow2(_)
Pow2(n) == IF n = 0 THEN 1 ELSE 2 * Pow2(n - 1)

RECURSIVE Concat(_)
Concat(bs) == IF bs = <<>> THEN <<>> ELSE Head(bs) \o Concat(Tail(bs))

\* _save_batch: a record whose request failed yields no snapshot DTO.
RECURSIVE Live(_)
Live(rs) ==
    IF rs = <<>> THEN <<>>
    ELSE IF Head(rs).failed THEN Live(Tail(rs))
    ELSE <<Head(rs)>> \o Live(Tail(rs))

\* A threshold test that lets the batch grow one record too far.
ShouldFlushLate(b, size) == Len(b) > size

\* if len(batch) >= batch_size
ShouldFlush(b, size) == Len(b) >= size

\* A retry test that allows a wait after the last attempt as well.
MayRetryAlways(att) == att < max_retries

\* if attempt < max_retries - 1
MayRetry(att) == att < max_retries - 1

\* A back-off that starts at two seconds.
BackoffFromTwo(att) == Pow2(att + 1)

\* wait_time = 2 ** attempt
Backoff(att) == Pow2(att)

\* The check that ends _process_records_in_batches.
FinalResult(failed) == IF failed # <<>> THEN "failed_batches_raised" ELSE "returned"

\* The k-th record the parser yields; HttpxRecord.failed is the tool's flag.
Record(k, f) == [id |-> k, failed |-> f]

\* The parser yields a record; the writer appends it and flushes a full batch.
Yield(f) ==
    /\ spc = "reading"
    /\ Len(yielded) < MaxRecords
    /\ task = "xingfinger" => ~f
    /\ LET rec == Record(Len(yielded) + 1, f)
           nb  == Append(batch, rec)
       IN  /\ yielded' = Append(yielded, rec)
           /\ batch' = nb
           /\ IF ShouldFlush(nb, batch_size)
              THEN /\ flushed' = Append(flushed, nb)
                   /\ spc' = "saving"
                   /\ attempt' = 0
                   /\ calls' = 0
                   /\ lastOutcome' = ""
                   /\ waits' = <<>>
              ELSE UNCHANGED <<flushed, spc, attempt, calls, lastOutcome, waits>>
    /\ UNCHANGED <<task, batch_size, persisted, failed_batches, tail, result>>
    /\ UNCHANGED nonStreamVars

\* The tool exits and the generator is exhausted: the tail is flushed, or,
\* with nothing left, the task ends.
EndOfStream ==
    /\ spc = "reading"
    /\ IF batch # <<>>
       THEN /\ flushed' = Append(flushed, batch)
            /\ spc' = "saving"
            /\ tail' = TRUE
            /\ attempt' = 0
            /\ calls' = 0
            /\ lastOutcome' = ""
            /\ waits' = <<>>
            /\ UNCHANGED result
       ELSE /\ spc' = "done"
            /\ result' = IF task = "urls" THEN FinalResult(failed_batches) ELSE "returned"
            /\ UNCHANGED <<flushed, tail, attempt, calls, lastOutcome, waits>>
    /\ UNCHANGED <<task, batch_size, yielded, batch, persisted, failed_batches>>
    /\ UNCHANGED nonStreamVars

\* The wall-clock timeout fires while the task waits for the next line:
\* the generator raises and the loop over it is left by the exception.
Timeout ==
    /\ spc = "reading"
    /\ spc' = "done"
    /\ result' = "timeout"
    /\ UNCHANGED <<task, batch_size, yielded, batch, flushed, persisted, failed_batches,
                   tail, attempt, calls, lastOutcome, waits>>
    /\ UNCHANGED nonStreamVars

\* After a batch was saved or given up: next record, or the end of the task.
AfterBatch(failed) ==
    /\ batch' = <<>>
    /\ IF tail
       THEN spc' = "done" /\ result' = FinalResult(failed)
       ELSE spc' = "reading" /\ UNCHANGED result

\* One pass of the loop of _save_batch_with_retry: a call of _save_batch
\* with the outcome the storage gives it.
SaveAttempt(outcome) ==
    /\ task = "urls"
    /\ spc = "saving"
    /\ outcome # "ok" => Live(batch) # <<>>
    /\ calls' = calls + 1
    /\ lastOutcome' = outcome
    /\ CASE outcome = "ok" ->
              /\ persisted' = persisted \o Live(batch)
              /\ AfterBatch(failed_batches)
              /\ UNCHANGED <<failed_batches, attempt, waits>>
         [] outcome = "integrity" ->
              /\ failed_batches' = Append(failed_batches, Len(flushed))
              /\ AfterBatch(failed_batches')
              /\ UNCHANGED <<persisted, attempt, waits>>
         [] outcome = "transient" ->
              IF MayRetry(attempt)
              THEN /\ waits' = Append(waits, Backoff(attempt))
                   /\ attempt' = attempt + 1
                   /\ IF attempt + 1 < max_retries
                      THEN UNCHANGED <<batch, persisted, failed_batches, spc, result>>
                      ELSE \* the loop ran out: the fall-back "success: False"
                           /\ failed_batches' = Append(failed_batches, Len(flushed))
                           /\ AfterBatch(failed_batches')
                           /\ UNCHANGED persisted
              ELSE /\ spc' = "done"
                   /\ result' = "transient_raised"
                   /\ UNCHANGED <<batch, persisted, failed_batches, attempt, waits>>
    /\ UNCHANGED <<task, batch_size, yielded, flushed, tail>>
    /\ UNCHANGED nonStreamVars

\* The fingerprint task's _process_batch: WebsiteSnapshotDTO has no fields
\* named status or web_server, so building the first DTO raises TypeError
\* before anything is written; the task re-raises it as RuntimeError.
ProcessBatchXingfinger ==
    /\ task = "xingfinger"
    /\ spc = "saving"
    /\ calls' = calls + 1
    /\ spc' = "done"
    /\ result' = "dto_type_error"
    /\ UNCHANGED <<task, batch_size, yielded, batch, flushed, persisted, failed_batches,
                   tail, attempt, lastOutcome, waits>>
    /\ UNCHANGED nonStreamVars

StreamStart ==
    /\ task \in {"urls", "xingfinger"}
    /\ batch_size \in 1..MaxBatchSize
    /\ yielded = <<>>
    /\ batch = <<>>
    /\ flushed = <<>>
    /\ persisted = <<>>
    /\ failed_batches = <<>>
    /\ spc = "reading"
    /\ tail = FALSE
    /\ attempt = 0
    /\ calls = 0
    /\ lastOutcome = ""
    /\ waits = <<>>
    /\ result = ""

\* No scan is being created, dispatched or run.
LifeIdle == LifeStart

StreamInit == StreamStart /\ LifeIdle /\ SinkIdle /\ AssetIdle /\ RaceIdle /\ ProvIdle /\ ExtraIdle

StreamNext ==
    \/ \E f \in BOOLEAN : Yield(f)
    \/ EndOfStream
    \/ Timeout
    \/ \E outcome \in {"ok", "integrity", "transient"} : SaveAttempt(outcome)
    \/ ProcessBatchXingfinger

SpecStream == StreamInit /\ [][StreamNext]_vars

(***************************************************************************)
(* Streaming claims                                                        *)
(***************************************************************************)
IsPrefix(a, b) == Len(a) <= Len(b) /\ a = SubSeq(b, 1, Len(a))

\* C5: when the run is ended by its wall-clock timeout, every record the
\* parser had yielded (and that the sink does not skip as a failed request)
\* has been persisted, the records of a batch that was not yet full included.
C5_TimeoutKeepsAllYielded ==
    (result = "timeout" /\ failed_batches = <<>>) => persisted = Live(yielded)

\* C6: a batch given up for a data-integrity error does not make the
\* streaming task raise.
C6_IntegrityErrorDoesNotFailTask ==
    result # "failed_batches_raised"

\* C7: a batch is handed to _save_batch at most max_retries times, and the
\* writer raises exactly when the max_retries-th call failed with a transient
\* storage error as well.
C7_AtMostNAttemptsThenRaise ==
    /\ calls <= max_retries
    /\ result = "transient_raised" => (calls = max_retries /\ lastOutcome = "transient")
    /\ (calls = max_retries /\ lastOutcome = "transient") => result = "transient_raised"

\* The writer gave up after the third transient failure of one batch.
C7_Witness ==
    /\ result = "transient_raised"
    /\ calls = 3
    /\ Len(flushed) >= 2

\* C8 as stated: before giving up the writer has waited 1 s, 2 s and 4 s.
C8_WaitsOneTwoFour ==
    result = "transient_raised" => waits = <<1, 2, 4>>

\* C8 as amended: the waits for one batch are 1 s after the first failed
\* attempt and 2 s after the second; the third failure raises without a wait.
C8_WaitsOneTwo ==
    /\ IsPrefix(waits, <<1, 2>>)
    /\ result = "transient_raised" => waits = <<1, 2>>

\* The writer gave up having slept twice.
C8_Witness ==
    /\ result = "transient_raised"
    /\ Len(waits) = 2

\* C9: the batches handed to the sink are consecutive pieces of the yielded
\* sequence, in order; all but the last hold exactly batch_size records; when
\* the stream ended normally their concatenation is the whole yielded
\* sequence, and with no failed batch the sink holds exactly those records.
C9_OrderedLosslessBatches ==
    /\ \A i \in 1..(Len(flushed) - 1) : Len(flushed[i]) = batch_size
    /\ Len(flushed) > 0 => Len(flushed[Len(flushed)]) \in 1..batch_size
    /\ IsPrefix(Concat(flushed), yielded)
    /\ result \in {"returned", "failed_batches_raised"} => Concat(flushed) = yielded
    /\ result = "returned" => persisted = Live(yielded)

\* A run that ended normally after full batches and a shorter tail.
C9_Witness ==
    /\ result = "returned"
    /\ Len(flushed) >= 2
    /\ Len(flushed[Len(flushed)]) < batch_size
    /\ persisted # <<>>

(***************************************************************************)
(* The snapshot + asset sink.                                              *)
(* EndpointSnapshotsService.save_and_sync (endpoint path),                 *)
(* HostPortMappingSnapshotsService.save_and_sync (host-port path) and the  *)
(* fingerprint task's _process_batch (fingerprint/website path).           *)
(* A table maps a unique key to the sequence of rows stored under it, so   *)
(* a table with two rows for one key is a state the model can express.     *)
(***************************************************************************)
Item(k, v) == [key |-> k, val |-> v]

\* A host/ip/port mapping has no field besides its natural key.
Items(path) ==
    IF path = "hostport" THEN {Item(k, "") : k \in Keys}
    ELSE {Item(k, v) : k \in Keys, v \in Vals}

Batches(path) == UNION {[1..n -> Items(path)] : n \in 0..MaxBatchLen}

HasKey(items, k) == \E i \in 1..Len(items) : items[i].key = k

HasDuplicateKeys(items) ==
    \E i, j \in 1..Len(items) : i < j /\ items[i].key = items[j].key

\* Scan.objects is the SoftDeleteManager: a soft-deleted scan does not exist.
ScanExists(scan, del) == scan \notin del

\* A sink that writes without asking whether the scan still exists.
SaveAndSyncUnchecked(items, scanExists) == items # <<>>

\* if not items: return / if not DjangoScanRepository().exists(scan_id): return
SaveAndSyncProceeds(items, scanExists) == items # <<>> /\ scanExists

\* deduplicate_for_bulk: one item per unique key, the last one given.
RECURSIVE deduplicate_for_bulk(_)
deduplicate_for_bulk(items) ==
    IF items = <<>> THEN <<>>
    ELSE IF HasKey(Tail(items), Head(items).key)
         THEN deduplicate_for_bulk(Tail(items))
         ELSE <<Head(items)>> \o deduplicate_for_bulk(Tail(items))

\* An insert that adds every row it is given.
RECURSIVE bulk_create_plain(_, _, _)
bulk_create_plain(rows, owner, items) ==
    IF items = <<>> THEN rows
    ELSE LET slot == <<owner, Head(items).key>>
         IN  bulk_create_plain([rows EXCEPT ![slot] = Append(@, Head(items).val)],
                               owner, Tail(items))

\* bulk_create(..., ignore_conflicts=True) on a table with a unique
\* constraint on (owner, natural key): a row whose key is taken is skipped.
RECURSIVE bulk_create_ignore_conflicts(_, _, _)
bulk_create_ignore_conflicts(rows, owner, items) ==
    IF items = <<>> THEN rows
    ELSE LET slot == <<owner, Head(items).key>>
             r1   == IF rows[slot] = <<>>
                     THEN [rows EXCEPT ![slot] = <<Head(items).val>>]
                     ELSE rows
         IN  bulk_create_ignore_conflicts(r1, owner, Tail(items))

\* save_snapshots without the unique constraint's ON CONFLICT DO NOTHING
save_snapshots_plain(rows, scan, items) ==
    IF items = <<>> THEN rows
    ELSE bulk_create_plain(rows, scan, deduplicate_for_bulk(items))

\* save_snapshots of the snapshot repositories.
save_snapshots(rows, scan, items) ==
    IF items = <<>> THEN rows
    ELSE bulk_create_ignore_conflicts(rows, scan, deduplicate_for_bulk(items))

\* bulk_create(..., update_conflicts=True, unique_fields=['url', 'target']):
\* one INSERT ... ON CONFLICT DO UPDATE statement; PostgreSQL rejects the
\* statement when two of its rows have the same conflict key.
bulk_upsert_raises(items) == HasDuplicateKeys(items)

RECURSIVE bulk_upsert(_, _, _)
bulk_upsert(rows, target, items) ==
    IF items = <<>> THEN rows
    ELSE LET slot == <<target, Head(items).key>>
             r1   == IF rows[slot] = <<>>
                     THEN [rows EXCEPT ![slot] = <<Head(items).val>>]
                     ELSE [rows EXCEPT ![slot] =
                              [i \in 1..Len(@) |-> Head(items).val]]
         IN  bulk_upsert(r1, target, Tail(items))

\* bulk_merge_website_fields: per record an UPDATE that fills only empty
\* fields, and an INSERT when no row matched.
RECURSIVE bulk_merge_website_fields(_, _, _)
bulk_merge_website_fields(rows, target, items) ==
    IF items = <<>> THEN rows
    ELSE LET slot == <<target, Head(items).key>>
             r1   == IF rows[slot] = <<>>
                     THEN [rows EXCEPT ![slot] = <<Head(items).val>>]
                     ELSE [rows EXCEPT ![slot] =
                              [i \in 1..Len(@) |->
                                  IF @[i] = "" THEN Head(items).val ELSE @[i]]]
         IN  bulk_merge_website_fields(r1, target, Tail(items))

\* The fields of the dataclass WebsiteSnapshotDTO.
WebsiteSnapshotDTOFields ==
    {"scan_id", "target_id", "url", "host", "title", "status_code",
     "content_length", "location", "webserver", "content_type", "tech",
     "response_body", "vhost", "response_headers"}

\* The keyword arguments _process_batch passes to WebsiteSnapshotDTO.
ProcessBatchKwargs ==
    {"scan_id", "target_id", "url", "host", "title", "status",
     "content_length", "web_server", "tech"}

\* A dataclass constructor raises TypeError for an unknown keyword.
DTOConstructionRaises(kwargs, fields) == ~(kwargs \subseteq fields)

\* Book-keeping for a batch that reached save_snapshots.
NoteSaved(scan, items) ==
    /\ submitted' = submitted \cup {<<scan, items[i].key>> : i \in 1..Len(items)}
    /\ seenDup' = seenDup
          \cup (IF HasDuplicateKeys(items) THEN {"within"} ELSE {})
          \cup (IF \E i \in 1..Len(items) : <<scan, items[i].key>> \in submitted
                THEN {"across"} ELSE {})

\* EndpointSnapshotsService.save_and_sync(items), all items of one scan.
EndpointSaveAndSync(scan, items) ==
    /\ sinkPath = "endpoint"
    /\ sinkTick' = ~sinkTick
    /\ sinkScan' = scan
    /\ IF SaveAndSyncProceeds(items, ScanExists(scan, deleted))
       THEN /\ snapRows' = save_snapshots(snapRows, scan, items)
            /\ NoteSaved(scan, items)
            /\ IF bulk_upsert_raises(items)
               THEN /\ assetRows' = assetRows
                    /\ sinkOutcome' = "asset_error"
               ELSE /\ assetRows' = bulk_upsert(assetRows, TargetOf(scan), items)
                    /\ sinkOutcome' = "saved"
       ELSE /\ sinkOutcome' = IF items = <<>> THEN "empty" ELSE "dropped"
            /\ UNCHANGED <<snapRows, assetRows, submitted, seenDup>>
    /\ UNCHANGED <<sinkPath, deleted>>
    /\ UNCHANGED nonSinkVars

\* HostPortMappingSnapshotsService.save_and_sync(items); the asset service
\* inserts with ignore_conflicts as well.
HostPortSaveAndSync(scan, items) ==
    /\ sinkPath = "hostport"
    /\ sinkTick' = ~sinkTick
    /\ sinkScan' = scan
    /\ IF SaveAndSyncProceeds(items, ScanExists(scan, deleted))
       THEN /\ snapRows' = save_snapshots(snapRows, scan, items)
            /\ NoteSaved(scan, items)
            /\ assetRows' = bulk_create_ignore_conflicts(assetRows, TargetOf(scan), items)
            /\ sinkOutcome' = "saved"
       ELSE /\ sinkOutcome' = IF items = <<>> THEN "empty" ELSE "dropped"
            /\ UNCHANGED <<snapRows, assetRows, submitted, seenDup>>
    /\ UNCHANGED <<sinkPath, deleted>>
    /\ UNCHANGED nonSinkVars

\* The fingerprint task's _process_batch(records, scan_id, ...): it asks
\* nothing about the scan; it builds the snapshot DTOs first, then saves the
\* snapshots and merges the asset rows.
FingerprintProcessBatch(scan, items) ==
    /\ sinkPath = "fingerprint"
    /\ items # <<>>
    /\ sinkTick' = ~sinkTick
    /\ sinkScan' = scan
    /\ IF DTOConstructionRaises(ProcessBatchKwargs, WebsiteSnapshotDTOFields)
       THEN /\ sinkOutcome' = "type_error"
            /\ UNCHANGED <<snapRows, assetRows, submitted, seenDup>>
       ELSE /\ snapRows' = save_snapshots(snapRows, scan, items)
            /\ NoteSaved(scan, items)
            /\ assetRows' = bulk_merge_website_fields(assetRows, TargetOf(scan), items)
            /\ sinkOutcome' = "saved"
    /\ UNCHANGED <<sinkPath, deleted>>
    /\ UNCHANGED nonSinkVars

\* The soft-delete phase of delete_scans_two_phase sets deleted_at.
SoftDelete(scan) ==
    /\ scan \notin deleted
    /\ deleted' = deleted \cup {scan}
    /\ UNCHANGED <<sinkPath, snapRows, assetRows, submitted, seenDup,
                   sinkTick, sinkScan, sinkOutcome>>
    /\ UNCHANGED nonSinkVars

SinkStart ==
    /\ sinkPath \in {"endpoint", "hostport", "fingerprint"}
    /\ deleted = {}
    /\ snapRows = [slot \in Slots |-> <<>>]
    /\ assetRows = [slot \in AssetSlots |-> <<>>]
    /\ submitted = {}
    /\ seenDup = {}
    /\ sinkTick = FALSE
    /\ sinkScan = ""
    /\ sinkOutcome = ""

SinkInit == SinkStart /\ LifeStart /\ StreamIdle /\ AssetIdle /\ RaceIdle /\ ProvIdle /\ ExtraIdle

SinkNext ==
    \/ \E scan \in Scans : \E items \in Batches(sinkPath) : EndpointSaveAndSync(scan, items)
    \/ \E scan \in Scans : \E items \in Batches(sinkPath) : HostPortSaveAndSync(scan, items)
    \/ \E scan \in Scans : \E items \in Batches(sinkPath) : FingerprintProcessBatch(scan, items)
    \/ \E scan \in Scans : SoftDelete(scan)

SpecSink == SinkInit /\ [][SinkNext]_vars

C10_OneSnapshotRowPerKey ==
    \A slot \in Slots :
        Len(snapRows[slot]) = IF slot \in submitted THEN 1 ELSE 0

\* Keys were repeated within a batch and across batches, for both scans.
C10_Witness ==
    /\ seenDup = {"within", "across"}
    /\ \A scan \in Scans : \E k \in Keys : <<scan, k>> \in submitted
    /\ \E slot \in Slots : slot \notin submitted

(***************************************************************************)
(* The asset write of the sink: WebSite / Endpoint rows of one target.     *)
(* DjangoEndpointRepository.bulk_upsert and                                *)
(* DjangoWebSiteRepository.bulk_upsert, called by save_and_sync after the  *)
(* snapshot rows were saved.  title stands for the fields that are empty   *)
(* as '', status_code for those that are empty as NULL, tech for the       *)
(* array fields (tech, matched_gf_patterns).                               *)
(***************************************************************************)
NULL == "NULL"

Payloads ==
    { [title |-> "",   status_code |-> NULL,  tech |-> {}],
      [title |-> "v1", status_code |-> "200", tech |-> {"a"}],
      [title |-> "v2", status_code |-> NULL,  tech |-> {"b"}] }

AssetItem(k, p) ==
    [key |-> k, title |-> p.title, status_code |-> p.status_code, tech |-> p.tech]

AssetItems == {AssetItem(k, p) : k \in Keys, p \in Payloads}

AssetBatches == UNION {[1..n -> AssetItems] : n \in 1..MaxAssetBatch}

\* The model instance built from a DTO: every field comes from the item.
RowOf(item) ==
    [title |-> item.title, status_code |-> item.status_code, tech |-> item.tech]

DupKeys(items) ==
    {k \in Keys : \E i, j \in 1..Len(items) :
                      i < j /\ items[i].key = k /\ items[j].key = k}

BatchTech(items) ==
    [k \in Keys |-> UNION {items[i].tech : i \in {j \in 1..Len(items) : items[j].key = k}}]

\* The last item of the batch with key k.
LastWith(items, k) ==
    items[CHOOSE i \in 1..Len(items) :
              /\ items[i].key = k
              /\ \A j \in (i + 1)..Len(items) : items[j].key # k]

\* bulk_create(update_conflicts=True, unique_fields=['url', 'target'],
\* update_fields=[..., 'title', ..., 'tech', 'status_code', ...]): a new key
\* is inserted, an existing row gets every listed field from the new record.
RECURSIVE bulk_create_update_conflicts(_, _)
bulk_create_update_conflicts(tab, items) ==
    IF items = <<>> THEN tab
    ELSE LET k  == Head(items).key
             t1 == IF tab[k] = <<>>
                   THEN [tab EXCEPT ![k] = <<RowOf(Head(items))>>]
                   ELSE [tab EXCEPT ![k] = [i \in 1..Len(@) |-> RowOf(Head(items))]]
         IN  bulk_create_update_conflicts(t1, Tail(items))

\* asset_service.bulk_upsert(asset_items): one statement inside
\* transaction.atomic(); when the statement is rejected nothing is written
\* and the exception reaches the caller.
AssetUpsert(items) ==
    /\ assetTick' = ~assetTick
    /\ assetOp' = "upsert"
    /\ batchDup' = DupKeys(items)
    /\ batchTech' = BatchTech(items)
    /\ IF bulk_upsert_raises(items)
       THEN /\ assetOutcome' = "raised"
            /\ UNCHANGED <<webTab, everTech, lastTitle, rewritten>>
       ELSE /\ assetOutcome' = "ok"
            /\ webTab' = bulk_create_update_conflicts(webTab, items)
            /\ everTech' = [k \in Keys |-> everTech[k] \cup BatchTech(items)[k]]
            /\ lastTitle' = [k \in Keys |->
                                IF HasKey(items, k) THEN LastWith(items, k).title
                                ELSE lastTitle[k]]
            /\ rewritten' = rewritten \cup {k \in Keys : HasKey(items, k) /\ webTab[k] # <<>>}
    /\ UNCHANGED nonAssetVars

AssetInit == AssetIdle /\ LifeStart /\ StreamIdle /\ SinkIdle /\ RaceIdle /\ ProvIdle /\ ExtraIdle

AssetNext == \E items \in AssetBatches : AssetUpsert(items)

SpecAsset == AssetInit /\ [][AssetNext]_vars

(***************************************************************************)
(* Asset claims                                                            *)
(***************************************************************************)
\* C11: after an asset write whose batch holds several records with the same
\* natural key, the write has succeeded and there is exactly one row for the
\* key, whose tech holds the union of those records' tech values.
C11_DuplicateKeysUpsertUnion ==
    (assetOp = "upsert" /\ batchDup # {}) =>
        /\ assetOutcome = "ok"
        /\ \A k \in batchDup :
              /\ Len(webTab[k]) = 1
              /\ batchTech[k] \subseteq webTab[k][1].tech

\* C12: an asset written by two (or more) successive upserts has the union
\* of the tech values written so far and the title written last.
C12_TwoRunsUnionAndLatest ==
    \A k \in rewritten :
        /\ Len(webTab[k]) = 1
        /\ webTab[k][1].tech = everTech[k]
        /\ webTab[k][1].title = lastTitle[k]

(***************************************************************************)
(* The fingerprint merge: bulk_merge_website_fields(records, target_id),   *)
(* applied to a WebSite table that earlier upserts and merges have filled. *)
(***************************************************************************)
\* A merge that takes the tool's value whatever is stored.
merge_scalar_overwrite(stored, new, empty) == new

\* CASE WHEN title = '' OR title IS NULL THEN %s ELSE title END, and
\* CASE WHEN status_code IS NULL THEN %s ELSE status_code END
merge_scalar(stored, new, empty) == IF stored = empty THEN new ELSE stored

\* The UPDATE of one row with one record.
MergeRow(row, rec) ==
    [title       |-> merge_scalar(row.title, rec.title, ""),
     status_code |-> merge_scalar(row.status_code, rec.status_code, NULL),
     tech        |-> row.tech \cup rec.tech]

\* Per record: UPDATE ... WHERE url = %s AND target_id = %s, and an INSERT
\* when no row matched.
RECURSIVE merge_website_fields(_, _)
merge_website_fields(tab, records) ==
    IF records = <<>> THEN tab
    ELSE LET k  == Head(records).key
             t1 == IF tab[k] = <<>>
                   THEN [tab EXCEPT ![k] = <<RowOf(Head(records))>>]
                   ELSE [tab EXCEPT ![k] =
                            [i \in 1..Len(@) |-> MergeRow(@[i], Head(records))]]
         IN  merge_website_fields(t1, Tail(records))

MergeWebsiteFields(records) ==
    /\ assetTick' = ~assetTick
    /\ assetOp' = "merge"
    /\ assetOutcome' = "ok"
    /\ batchDup' = DupKeys(records)
    /\ batchTech' = BatchTech(records)
    /\ webTab' = merge_website_fields(webTab, records)
    /\ UNCHANGED <<everTech, lastTitle, rewritten>>
    /\ UNCHANGED nonAssetVars

\* The rows a WebSite table can hold: at most one per key (the unique
\* constraint), with the field values upserts and merges can have stored.
StoredRows ==
    [title : {p.title : p \in Payloads},
     status_code : {p.status_code : p \in Payloads},
     tech : SUBSET (UNION {p.tech : p \in Payloads})]

\* The merge starts on any such table.
MergeStart ==
    /\ webTab \in [Keys -> {<<>>} \cup {<<r>> : r \in StoredRows}]
    /\ assetTick = FALSE
    /\ assetOp = ""
    /\ assetOutcome = ""
    /\ batchDup = {}
    /\ batchTech = [k \in Keys |-> {}]
    /\ everTech = [k \in Keys |-> {}]
    /\ lastTitle = [k \in Keys |-> ""]
    /\ rewritten = {}

MergeInit == MergeStart /\ LifeStart /\ StreamIdle /\ SinkIdle /\ RaceIdle /\ ProvIdle /\ ExtraIdle

MergeNext == \E records \in AssetBatches : MergeWebsiteFields(records)

SpecMerge == MergeInit /\ [][MergeNext]_vars

\* C14: a fingerprint merge leaves a stored title that is not empty and a
\* stored status_code that is not NULL as they are, keeps every stored tech
\* value, and adds no row to a key that has one; a field it changes was
\* empty / NULL before.
C14_MergeFillsOnlyEmptyFields ==
    [][((assetTick' # assetTick /\ assetOp' = "merge") =>
          \A k \in Keys : webTab[k] # <<>> =>
              /\ Len(webTab'[k]) = Len(webTab[k])
              /\ \A i \in 1..Len(webTab[k]) :
                    /\ webTab[k][i].title # "" =>
                           webTab'[k][i].title = webTab[k][i].title
                    /\ webTab[k][i].status_code # NULL =>
                           webTab'[k][i].status_code = webTab[k][i].status_code
                    /\ webTab[k][i].tech \subseteq webTab'[k][i].tech)]_vars

\* The last merge carried, for a key whose row has the title "v1", only
\* records with the title "v2" or none: their tech was added, the stored
\* title and status_code were not replaced.
C14_Witness ==
    /\ assetOp = "merge"
    /\ \E k \in Keys :
          /\ Len(webTab[k]) = 1
          /\ batchTech[k] = {"b"}
          /\ webTab[k][1].title = "v1"
          /\ webTab[k][1].status_code = "200"
          /\ webTab[k][1].tech = {"a", "b"}

(***************************************************************************)
(* Two scans of one target run DjangoWebSiteRepository.bulk_upsert at the  *)
(* same time.  Each call is one transaction (transaction.atomic) holding   *)
(* one INSERT ... ON CONFLICT (url, target) DO UPDATE statement, which     *)
(* handles its rows in order; a row is locked from the moment the          *)
(* statement writes it until the transaction ends (READ COMMITTED).        *)
(***************************************************************************)
\* What each scan's tool found for the urls it upserts.
PayloadOf(scan) ==
    IF scan = "s1" THEN [title |-> "v1", status_code |-> "200", tech |-> {"a"}]
    ELSE [title |-> "v2", status_code |-> NULL, tech |-> {"b"}]

\* Batches of distinct keys: a statement the database accepts.
KeyBatches ==
    {b \in UNION {[1..n -> Keys] : n \in 1..MaxAssetBatch} : ~HasDuplicateKeys([i \in 1..Len(b) |-> [key |-> b[i]]])}

InBatch(t, k) == \E i \in 1..Len(txBatch[t]) : txBatch[t][i] = k

\* An insert that does not arbitrate on the unique key.
insert_row(rows, row) == Append(rows, row)

\* ON CONFLICT (url, target) DO UPDATE SET <update_fields> = EXCLUDED.*
upsert_row(rows, row) ==
    IF rows = <<>> THEN <<row>> ELSE [i \in 1..Len(rows) |-> row]

\* with transaction.atomic(): the statement starts.
TxBegin(t, b) ==
    /\ txPc[t] = "idle"
    /\ txPc' = [txPc EXCEPT ![t] = "exec"]
    /\ txBatch' = [txBatch EXCEPT ![t] = b]
    /\ txPos' = [txPos EXCEPT ![t] = 1]
    /\ UNCHANGED <<rowLock, commitLog>>
    /\ UNCHANGED <<nonRaceVars, assetVars>>

\* The statement reaches the row it has to write or to update.
Waiting(t) ==
    /\ txPc[t] = "exec"
    /\ txPos[t] <= Len(txBatch[t])
    /\ rowLock[txBatch[t][txPos[t]]] \notin {"", t}

\* The statement writes its next row; it waits while another transaction
\* holds an uncommitted version of that row.
TxWriteRow(t) ==
    /\ txPc[t] = "exec"
    /\ txPos[t] <= Len(txBatch[t])
    /\ ~Waiting(t)
    /\ rowLock' = [rowLock EXCEPT ![txBatch[t][txPos[t]]] = t]
    /\ txPos' = [txPos EXCEPT ![t] = @ + 1]
    /\ UNCHANGED <<txPc, txBatch, commitLog>>
    /\ UNCHANGED <<nonRaceVars, assetVars>>

\* Leaving transaction.atomic(): the rows become the committed ones.
TxCommit(t) ==
    /\ txPc[t] = "exec"
    /\ txPos[t] > Len(txBatch[t])
    /\ webTab' = [k \in Keys |->
                     IF InBatch(t, k)
                     THEN upsert_row(webTab[k], PayloadOf(t))
                     ELSE webTab[k]]
    /\ rowLock' = [k \in Keys |-> IF rowLock[k] = t THEN "" ELSE rowLock[k]]
    /\ txPc' = [txPc EXCEPT ![t] = "committed"]
    /\ commitLog' = Append(commitLog, t)
    /\ UNCHANGED <<txBatch, txPos>>
    /\ UNCHANGED <<assetTick, assetOp, assetOutcome, batchDup, batchTech,
                   everTech, lastTitle, rewritten>>
    /\ UNCHANGED nonRaceVars

\* Both statements wait for a row the other holds: the database ends one
\* of them with a deadlock error, its transaction rolls back and
\* bulk_upsert re-raises.
TxDeadlock(t) ==
    /\ \A u \in Scans : Waiting(u)
    /\ rowLock' = [k \in Keys |-> IF rowLock[k] = t THEN "" ELSE rowLock[k]]
    /\ txPc' = [txPc EXCEPT ![t] = "aborted"]
    /\ UNCHANGED <<txBatch, txPos, commitLog>>
    /\ UNCHANGED <<nonRaceVars, assetVars>>

\* The table the two scans start on: any table of at most one row per key.
RaceInit == MergeStart /\ RaceIdle /\ LifeStart /\ StreamIdle /\ SinkIdle /\ ProvIdle /\ ExtraIdle

RaceNext ==
    \/ \E t \in Scans : \E b \in KeyBatches : TxBegin(t, b)
    \/ \E t \in Scans : TxWriteRow(t)
    \/ \E t \in Scans : TxCommit(t)
    \/ \E t \in Scans : TxDeadlock(t)

SpecRace == RaceInit /\ [][RaceNext]_vars

\* The committed upserts of key k, in commit order.
CommittersOf(k) == SelectSeq(commitLog, LAMBDA t : InBatch(t, k))

\* C13: whatever the interleaving of the two upserts, a key that a committed
\* upsert wrote has exactly one row, and its scalar fields are those of the
\* upsert of that key that committed last.
C13_OneRowLastCommitterWins ==
    \A k \in Keys :
        CommittersOf(k) # <<>> =>
            LET last == CommittersOf(k)[Len(CommittersOf(k))]
            IN  /\ Len(webTab[k]) = 1
                /\ webTab[k][1].title = PayloadOf(last).title
                /\ webTab[k][1].status_code = PayloadOf(last).status_code

\* Both scans upserted the same url, which had no row before, and s1
\* committed after s2.
C13_Witness ==
    /\ commitLog = <<"s2", "s1">>
    /\ \E k \in Keys :
          /\ InBatch("s1", k)
          /\ InBatch("s2", k)
          /\ webTab[k] = <<PayloadOf("s1")>>
    /\ \E k \in Keys : ~InBatch("s1", k) /\ InBatch("s2", k)

(***************************************************************************)
(* Orchestrator and dispatch claims (SpecLifecycle)                        *)
(***************************************************************************)
GroupOf(st) == CHOOSE g \in 1..Len(get_execution_stages) :
                   st \in get_execution_stages[g].stages

\* C15: the stages of the parallel group are all started together; a stage
\* of the group that fails changes neither another stage's state nor the
\* orchestrator's; and the flow is over only when every stage of the group
\* has its result, "ok" or "failed".
C15_ParallelGroupIndependent ==
    /\ [](flow = "done" => \A st \in ParStages : Finished(st))
    /\ [][/\ (\E st \in ParStages : stage[st] = "pending" /\ stage'[st] # "pending")
               => \A st \in ParStages : stage'[st] = "running"
          /\ \A st \in ParStages :
                (stage[st] = "running" /\ stage'[st] = "failed")
                   => /\ flow' = flow
                      /\ \A o \in ParStages \ {st} : stage'[o] = stage[o]]_vars

\* The flow ended with one stage of the parallel group failed and another
\* one successful.
C15_Witness ==
    /\ flow = "done"
    /\ \E st \in ParStages : stage[st] = "failed"
    /\ \E st \in ParStages : stage[st] = "ok"

\* C16: a stage that has been started finds every stage of every earlier
\* group finished, and, in a sequential group, every stage to its left
\* finished.
C16_StagesInPlanOrder ==
    \A st \in Stages :
        stage[st] # "pending" =>
            /\ \A o \in Stages : GroupOf(o) < GroupOf(st) => Finished(o)
            /\ get_execution_stages[GroupOf(st)].mode = "sequential" =>
                   \A o \in get_execution_stages[GroupOf(st)].stages :
                       o < st => Finished(o)

\* The parallel group runs after a sequential group in which a stage failed.
C16_Witness ==
    /\ \E st \in ParStages : stage[st] = "running"
    /\ \E st \in SeqStages : stage[st] = "failed"
    /\ \E st \in SeqStages : stage[st] = "ok"

\* C17: the flow raises only out of its set-up, never because a stage
\* failed; it ends only when every stage has its result, and then the
\* completion takes a RUNNING scan to COMPLETED whatever the stages' results.
C17_StageFailureNeverFailsScan ==
    [][/\ (flow' = "raised" /\ flow # "raised") => flow = "setup"
       /\ (flow = "exec" /\ flow' = "done") =>
              /\ \A st \in Stages : Finished(st)
              /\ status = RUNNING => status' = COMPLETED]_vars

\* The scan is COMPLETED although a stage of each group failed.
C17_Witness ==
    /\ flow = "done"
    /\ status = COMPLETED
    /\ \E st \in SeqStages : stage[st] = "failed"
    /\ \E st \in ParStages : stage[st] = "failed"

\* The dispatch of the scan failed: execute_scan_flow returned failure or
\* raised, so no flow was scheduled.
DispatchFailed == dispatch = "done" /\ flow = "absent"

Domains == {<<"a.example.com">>, <<"internal.example.com">>}
Ports == {80, 443, 8080}

\* str(port) inside the f-strings of iter_host_port_urls
PortText(port) ==
    CASE port = 80  -> "80"
      [] port = 443 -> "443"
      [] OTHER      -> "8080"

http(host) == <<"http://">> \o host
https(host) == <<"https://">> \o host

\* The URLs stored in the WebSite / Endpoint tables; <<>> is an empty url column.
StoredUrls == {<<>>, http(<<"a.example.com">>), https(<<"internal.example.com">>)}

HostPorts == [host : Domains, port : Ports]

\* A rule {pattern, kind}.  BlacklistFilter matches against the raw string.
RulePool ==
    [pattern : {<<"internal.example.com">>, <<"10.0.0.1">>},
     kind : {"exact", "substring"}]

\* pattern occurs in value as a contiguous run of pieces
Occurs(pattern, value) ==
    \E i \in 1..(Len(value) - Len(pattern) + 1) :
        SubSeq(value, i, i + Len(pattern) - 1) = pattern

Matches(rule, value) ==
    IF rule.kind = "exact" THEN value = rule.pattern
    ELSE Occurs(rule.pattern, value)

\* BlacklistFilter.is_allowed: true iff no rule matches
is_allowed(rules, value) == \A r \in rules : ~Matches(r, value)

\* the filter test left out: every candidate is yielded
PassesUnfiltered(blacklist, value) == TRUE

\* `if not blacklist or blacklist.is_allowed(x)` of every iterator.  A filter
\* object that is falsy holds no rule, and then is_allowed is true as well.
Passes(blacklist, value) == is_allowed(blacklist, value)

\* ipaddress.ip_network(name, strict=False): the networks a target is named by.
ip_network(name) ==
    CASE name = <<"10.0.0.0/30">> ->
            [valid |-> TRUE, hosts |-> {<<"10.0.0.1">>, <<"10.0.0.2">>},
             network_address |-> <<"10.0.0.0">>]
      [] name = <<"10.0.0.1/32">> ->
            [valid |-> TRUE, hosts |-> {},
             network_address |-> <<"10.0.0.1">>]
      [] OTHER ->
            [valid |-> FALSE, hosts |-> {}, network_address |-> <<>>]

TargetRows ==
    {NoTarget,
     [type |-> "domain", name |-> <<"a.example.com">>],
     [type |-> "domain", name |-> <<"internal.example.com">>],
     [type |-> "ip",     name |-> <<"10.0.0.1">>],
     [type |-> "cidr",   name |-> <<"10.0.0.0/30">>],
     [type |-> "cidr",   name |-> <<"10.0.0.1/32">>],
     [type |-> "cidr",   name |-> <<"no-network">>],
     [type |-> "url",    name |-> http(<<"a.example.com">>)]}

\* the port rule left out: both schemes with the port, whatever the port
host_port_urls_with_port(host, port) ==
    {http(host) \o <<":", PortText(port)>>, https(host) \o <<":", PortText(port)>>}

\* the `urls` list iter_host_port_urls builds for one (host, port) row
host_port_urls(host, port) ==
    IF port = 80 THEN {http(host)}
    ELSE IF port = 443 THEN {https(host)}
    ELSE {http(host) \o <<":", PortText(port)>>,
          https(host) \o <<":", PortText(port)>>}

\* the `urls` list iter_default_urls builds before it filters ({} where it returns)
default_urls(target) ==
    IF target = NoTarget THEN {}
    ELSE IF target.type \in {"domain", "ip"}
         THEN {http(target.name), https(target.name)}
    ELSE IF target.type = "cidr"
         THEN LET network == ip_network(target.name)
                  ips == IF network.hosts = {} THEN {network.network_address}
                         ELSE network.hosts
              IN  IF network.valid
                  THEN UNION {{http(ip), https(ip)} : ip \in ips}
                  ELSE {}
    ELSE {}

iter_subdomains ==
    {domain \in inventory.subdomains : Passes(blacklistRules, domain)}

iter_host_port_urls ==
    {url \in UNION {host_port_urls(m.host, m.port) : m \in inventory.host_ports} :
        Passes(blacklistRules, url)}

iter_websites ==
    {url \in inventory.websites : url # <<>> /\ Passes(blacklistRules, url)}

iter_endpoints ==
    {url \in inventory.endpoints : url # <<>> /\ Passes(blacklistRules, url)}

iter_default_urls ==
    {url \in default_urls(targetRow) : Passes(blacklistRules, url)}

Iterators == {"subdomains", "host_port_urls", "websites", "endpoints", "default_urls"}

\* what a complete pass over the named iterator yields
Yields(name) ==
    CASE name = "subdomains"     -> iter_subdomains
      [] name = "host_port_urls" -> iter_host_port_urls
      [] name = "websites"       -> iter_websites
      [] name = "endpoints"      -> iter_endpoints
      [] OTHER                   -> iter_default_urls

Consume(name) ==
    /\ iterCalled' = name
    /\ emitted' = Yields(name)
    /\ UNCHANGED <<blacklistRules, targetRow, inventory, exportSources, exportResult,
                   exportTask, nonProvVars>>

IterSubdomains == Consume("subdomains")
IterHostPortUrls == Consume("host_port_urls")
IterWebsites == Consume("websites")
IterEndpoints == Consume("endpoints")
IterDefaultUrls == Consume("default_urls")

Inventories ==
    {inv \in [subdomains : SUBSET Domains, host_ports : SUBSET HostPorts,
              websites : SUBSET StoredUrls, endpoints : SUBSET StoredUrls] :
        Cardinality(inv.subdomains) + Cardinality(inv.host_ports)
          + Cardinality(inv.websites) + Cardinality(inv.endpoints) <= MaxAssets}

ProvStart ==
    /\ blacklistRules \in {R \in SUBSET RulePool : Cardinality(R) <= MaxRules}
    /\ targetRow \in TargetRows
    /\ inventory \in Inventories
    /\ iterCalled = ""
    /\ emitted = {}
    /\ exportSources = <<>>
    /\ exportResult = NoExport
    /\ exportTask = ""

ProvInit == ProvStart /\ LifeStart /\ StreamIdle /\ SinkIdle /\ AssetIdle /\ RaceIdle
    /\ ExtraIdle

ProvNext ==
    \/ IterSubdomains
    \/ IterHostPortUrls
    \/ IterWebsites
    \/ IterEndpoints
    \/ IterDefaultUrls

SpecProvider == ProvInit /\ [][ProvNext]_vars

\* the values the named iterator considers before the blacklist is applied
Candidates(name) ==
    CASE name = "subdomains"     -> inventory.subdomains
      [] name = "host_port_urls" ->
            UNION {host_port_urls(m.host, m.port) : m \in inventory.host_ports}
      [] name = "websites"       -> inventory.websites \ {<<>>}
      [] name = "endpoints"      -> inventory.endpoints \ {<<>>}
      [] OTHER                   -> default_urls(targetRow)

\* C19: whatever the rules and the stored assets, each Inventory-provider
\* iterator yields exactly its candidate values that no blacklist rule
\* matches: no blacklisted value is yielded and no allowed one is left out.
C19_EmitsExactlyAllowedCandidates ==
    iterCalled \in Iterators =>
        emitted = {v \in Candidates(iterCalled) :
                      ~ \E r \in blacklistRules : Matches(r, v)}

\* The host:port iterator ran over rows of which a rule removed one URL and
\* let another through.
C19_Witness ==
    /\ iterCalled = "host_port_urls"
    /\ emitted # {}
    /\ \E v \in Candidates("host_port_urls") :
           v \notin emitted /\ \E r \in blacklistRules : Matches(r, v)

(***************************************************************************)
(* URL export with a fall-back chain (target_export_service.py)            *)
(***************************************************************************)
\* class DataSource
ENDPOINT == "endpoint"
WEBSITE == "website"
HOST_PORT == "host_port"
DEFAULT == "default"
DataSources == {ENDPOINT, WEBSITE, HOST_PORT, DEFAULT}

\* TargetExportService._should_write_url, and the same test inside export_urls
should_write_url(url) == blacklistRules = {} \/ is_allowed(blacklistRules, url)

\* TargetExportService.export_urls over the rows of one queryset
export_urls(rows) ==
    LET written == {url \in rows : url # <<>> /\ should_write_url(url)}
    IN  [total_count |-> Cardinality(written),
         queryset_count |-> Cardinality(rows),
         lines |-> written]

\* TargetExportService.generate_default_urls
generate_default_urls(target) ==
    IF target = NoTarget THEN [raised |-> FALSE, lines |-> {}]
    ELSE IF target.type \in {"domain", "ip"}
         THEN [raised |-> FALSE,
               lines |-> {url \in {http(target.name), https(target.name)} :
                             should_write_url(url)}]
    ELSE IF target.type = "cidr"
         THEN LET network == ip_network(target.name)
                  ofHosts == {url \in UNION {{http(ip), https(ip)} : ip \in network.hosts} :
                                 should_write_url(url)}
                  ofNetwork == {url \in {http(network.network_address),
                                         https(network.network_address)} :
                                   should_write_url(url)}
              IN  IF ~network.valid THEN [raised |-> TRUE, lines |-> {}]
                  ELSE [raised |-> FALSE,
                        lines |-> IF ofHosts = {} THEN ofNetwork ELSE ofHosts]
    ELSE IF target.type = "url"
         THEN [raised |-> FALSE,
               lines |-> {url \in {target.name} : should_write_url(url)}]
    ELSE [raised |-> FALSE, lines |-> {}]

\* the queryset export_urls_with_fallback builds for a source
queryset(source) ==
    IF source = ENDPOINT THEN inventory.endpoints ELSE inventory.websites

\* the all-filtered test dropped: an empty export always falls through
AllFilteredIgnored(res) == FALSE

\* `if result['queryset_count'] > 0` after an export that wrote nothing
AllFiltered(res) == res.queryset_count > 0

\* the loop of export_urls_with_fallback from position i of sources
RECURSIVE export_from(_, _)
export_from(sources, i) ==
    IF i > Len(sources)
    THEN [outcome |-> "returned", source |-> "none", total_count |-> 0,
          tried_sources |-> sources, lines |-> {}]
    ELSE LET source == sources[i]
             tried_sources == SubSeq(sources, 1, i)
         IN  IF source = DEFAULT
             THEN LET res == generate_default_urls(targetRow)
                  IN  IF res.raised
                      THEN [outcome |-> "raised", source |-> DEFAULT, total_count |-> 0,
                            tried_sources |-> tried_sources, lines |-> {}]
                      ELSE [outcome |-> "returned", source |-> DEFAULT,
                            total_count |-> Cardinality(res.lines),
                            tried_sources |-> tried_sources, lines |-> res.lines]
             ELSE IF source \notin {ENDPOINT, WEBSITE}
             THEN export_from(sources, i + 1)
             ELSE LET res == export_urls(queryset(source))
                  IN  IF res.total_count > 0
                      THEN [outcome |-> "returned", source |-> source,
                            total_count |-> res.total_count,
                            tried_sources |-> tried_sources, lines |-> res.lines]
                      ELSE IF AllFiltered(res)
                      THEN [outcome |-> "returned", source |-> source,
                            total_count |-> 0,
                            tried_sources |-> tried_sources, lines |-> {}]
                      ELSE export_from(sources, i + 1)

export_urls_with_fallback(sources) == export_from(sources, 1)

\* the lists of distinct sources a caller passes
SourceLists ==
    {s \in UNION {[1..n -> DataSources] : n \in 0..MaxSources} :
        \A i, j \in DOMAIN s : i # j => s[i] # s[j]}

ExportUrlsWithFallback ==
    /\ exportResult' = export_urls_with_fallback(exportSources)
    /\ UNCHANGED <<blacklistRules, targetRow, inventory, iterCalled, emitted,
                   exportSources, exportTask, nonProvVars>>

ExportTargets ==
    {NoTarget,
     [type |-> "domain", name |-> <<"internal.example.com">>],
     [type |-> "cidr",   name |-> <<"10.0.0.0/30">>],
     [type |-> "cidr",   name |-> <<"no-network">>],
     [type |-> "url",    name |-> http(<<"a.example.com">>)]}

\* The tables the export can read; asset rows exist only under a target row.
ExportInventories ==
    {inv \in Inventories :
        /\ inv.subdomains = {}
        /\ inv.host_ports \subseteq {[host |-> <<"a.example.com">>, port |-> 8080]}}

ExportStart ==
    /\ blacklistRules \in {R \in SUBSET RulePool : Cardinality(R) <= MaxRules}
    /\ targetRow \in ExportTargets
    /\ inventory \in ExportInventories
    /\ targetRow = NoTarget =>
          inventory = [subdomains |-> {}, host_ports |-> {}, websites |-> {},
                       endpoints |-> {}]
    /\ iterCalled = ""
    /\ emitted = {}
    /\ exportSources \in SourceLists
    /\ exportResult = NoExport
    /\ exportTask = ""

ExportInit == ExportStart /\ LifeStart /\ StreamIdle /\ SinkIdle /\ AssetIdle /\ RaceIdle
    /\ ExtraIdle

ExportNext == ExportUrlsWithFallback

SpecExport == ExportInit /\ [][ExportNext]_vars

\* the rows a source has for the export, and the lines exporting it writes;
\* host_port has no branch in export_urls_with_fallback: nothing is read or
\* written for it
RawCount(source) ==
    CASE source = ENDPOINT -> Cardinality(inventory.endpoints)
      [] source = WEBSITE  -> Cardinality(inventory.websites)
      [] source = DEFAULT  ->
            IF targetRow = NoTarget \/ generate_default_urls(targetRow).raised
            THEN 0
            ELSE IF targetRow.type = "url" THEN 1
            ELSE Cardinality(default_urls(targetRow))
      [] OTHER             -> 0

Written(source) ==
    CASE source = ENDPOINT ->
            {u \in inventory.endpoints \ {<<>>} : is_allowed(blacklistRules, u)}
      [] source = WEBSITE  ->
            {u \in inventory.websites \ {<<>>} : is_allowed(blacklistRules, u)}
      [] source = DEFAULT  -> generate_default_urls(targetRow).lines
      [] OTHER             -> {}

\* the positions of sources at which the walk has to stop
StopsAt(sources) ==
    {i \in DOMAIN sources :
        Written(sources[i]) # {} \/ RawCount(sources[i]) > 0}

\* C20: export_urls_with_fallback walks sources in order and returns the
\* first source that wrote at least one line or that has rows all of which
\* were filtered out (then with count 0); its count and the file are that
\* source's, and no later source is tried.
C20_FirstNonEmptySourceReturned ==
    (exportResult.outcome = "returned" /\ StopsAt(exportSources) # {}) =>
        LET j == CHOOSE i \in StopsAt(exportSources) :
                     \A k \in StopsAt(exportSources) : i <= k
        IN  /\ exportResult.source = exportSources[j]
            /\ exportResult.total_count = Cardinality(Written(exportSources[j]))
            /\ exportResult.lines = Written(exportSources[j])
            /\ exportResult.tried_sources = SubSeq(exportSources, 1, j)

\* The endpoints were all blacklisted although a later source had allowed
\* URLs: the export returned the endpoint source with nothing written.
C20_Witness ==
    /\ exportResult.outcome = "returned"
    /\ Len(exportSources) >= 2
    /\ exportSources[1] = ENDPOINT
    /\ exportSources[2] = WEBSITE
    /\ inventory.endpoints # {}
    /\ \A u \in inventory.endpoints : \E r \in blacklistRules : Matches(r, u)
    /\ Written(WEBSITE) # {}
    /\ exportResult.source = ENDPOINT
    /\ exportResult.total_count = 0

(***************************************************************************)
(* Snapshot provider (SnapshotTargetProvider) and provider selection       *)
(***************************************************************************)
\* the URLs SnapshotTargetProvider.iter_host_port_urls yields for one row
snapshot_host_port_urls(host, port) ==
    IF port = 80 THEN {<<"http://">> \o host}
    ELSE IF port = 443 THEN {<<"https://">> \o host}
    ELSE {<<"http://">> \o host \o <<":", PortText(port)>>,
          <<"https://">> \o host \o <<":", PortText(port)>>}

\* the scan filter left out: rows of every scan are read
SnapshotYieldsAnyScan(name) ==
    CASE name = "subdomains"     -> UNION {snapshots[s].subdomains : s \in Scans}
      [] name = "host_port_urls" ->
            UNION {snapshot_host_port_urls(m.host, m.port) :
                      m \in UNION {snapshots[s].host_ports : s \in Scans}}
      [] name = "websites"       -> UNION {snapshots[s].websites : s \in Scans}
      [] name = "endpoints"      -> UNION {snapshots[s].endpoints : s \in Scans}
      [] OTHER                   -> default_urls(targetRow)

\* what a complete pass over the named iterator of the Snapshot provider
\* yields; get_blacklist_filter() returns None, so nothing is filtered
SnapshotYields(name) ==
    CASE name = "subdomains"     -> snapshots[provScan].subdomains
      [] name = "host_port_urls" ->
            UNION {snapshot_host_port_urls(m.host, m.port) :
                      m \in snapshots[provScan].host_ports}
      [] name = "websites"       -> snapshots[provScan].websites
      [] name = "endpoints"      -> snapshots[provScan].endpoints
      [] OTHER                   -> default_urls(targetRow)

\* _create_provider: Snapshot provider for a QUICK scan, Inventory otherwise
ProviderYields(name) ==
    IF scan_mode = QUICK THEN SnapshotYields(name) ELSE Yields(name)

ProviderIter ==
    \E name \in Iterators :
        /\ iterCalled' = name
        /\ emitted' = ProviderYields(name)
        /\ UNCHANGED <<blacklistRules, targetRow, inventory, exportSources,
                       exportResult, exportTask, quickVars, nonQuickVars>>

(***************************************************************************)
(* Stage export tasks with a default-URL fall-back                         *)
(***************************************************************************)
\* export_sites_task (directory_scan): provider.iter_websites(), and
\* provider.iter_default_urls() when that list is empty
export_sites_task ==
    LET urls == ProviderYields("websites")
        fallback == ProviderYields("default_urls")
    IN  IF urls # {}
        THEN [outcome |-> "returned", source |-> WEBSITE,
              total_count |-> Cardinality(urls), tried_sources |-> <<>>,
              lines |-> urls]
        ELSE [outcome |-> "returned", source |-> DEFAULT,
              total_count |-> Cardinality(fallback), tried_sources |-> <<>>,
              lines |-> fallback]

\* export_site_urls_task (site_scan) called with a target id: HostPortMapping
\* rows filtered by host, default URLs only when the table is empty
export_site_urls_task ==
    LET associations == inventory.host_ports
        kept == {m \in associations : is_allowed(blacklistRules, m.host)}
        urls == UNION {host_port_urls(m.host, m.port) : m \in kept}
        res == generate_default_urls(targetRow)
    IN  IF associations # {} /\ urls = {}
        THEN [outcome |-> "returned", source |-> HOST_PORT, total_count |-> 0,
              tried_sources |-> <<>>, lines |-> {}]
        ELSE IF urls # {}
        THEN [outcome |-> "returned", source |-> HOST_PORT,
              total_count |-> Cardinality(urls), tried_sources |-> <<>>,
              lines |-> urls]
        ELSE IF res.raised
        THEN [outcome |-> "raised", source |-> DEFAULT, total_count |-> 0,
              tried_sources |-> <<>>, lines |-> {}]
        ELSE [outcome |-> "returned", source |-> DEFAULT,
              total_count |-> Cardinality(res.lines), tried_sources |-> <<>>,
              lines |-> res.lines]

ExportSitesTask ==
    /\ exportTask' = "export_sites"
    /\ exportResult' = export_sites_task
    /\ UNCHANGED <<blacklistRules, targetRow, inventory, iterCalled, emitted,
                   exportSources, nonProvVars>>

ExportSiteUrlsTask ==
    /\ exportTask' = "export_site_urls"
    /\ exportResult' = export_site_urls_task
    /\ UNCHANGED <<blacklistRules, targetRow, inventory, iterCalled, emitted,
                   exportSources, nonProvVars>>

\* The tables the two tasks read.
StageInventories ==
    {inv \in Inventories : inv.subdomains = {} /\ inv.endpoints = {}}

StageExportStart ==
    /\ blacklistRules \in {R \in SUBSET RulePool : Cardinality(R) <= MaxRules}
    /\ targetRow \in ExportTargets
    /\ inventory \in StageInventories
    /\ targetRow = NoTarget =>
          inventory = [subdomains |-> {}, host_ports |-> {}, websites |-> {},
                       endpoints |-> {}]
    /\ iterCalled = ""
    /\ emitted = {}
    /\ exportSources = <<>>
    /\ exportResult = NoExport
    /\ exportTask = ""

StageExportInit ==
    StageExportStart /\ LifeStart /\ StreamIdle /\ SinkIdle /\ AssetIdle /\ RaceIdle
    /\ ExtraIdle

StageExportNext == ExportSitesTask \/ ExportSiteUrlsTask

SpecStageExport == StageExportInit /\ [][StageExportNext]_vars

Blacklisted(value) == \E r \in blacklistRules : Matches(r, value)

\* C21: when the primary source of a stage export has rows and all of them
\* are blacklisted, the export writes no line and does not fall back to the
\* default URLs (site_scan: HostPortMapping rows; directory_scan: WebSite rows).
C21_AllBlacklistedNoFallback ==
    /\ (/\ exportTask = "export_site_urls"
        /\ inventory.host_ports # {}
        /\ \A m \in inventory.host_ports : Blacklisted(m.host))
       => (exportResult.total_count = 0 /\ exportResult.source # DEFAULT)
    /\ (/\ exportTask = "export_sites"
        /\ inventory.websites # {}
        /\ \A u \in inventory.websites : u # <<>> /\ Blacklisted(u))
       => (exportResult.total_count = 0 /\ exportResult.source # DEFAULT)

(***************************************************************************)
(* Stage flows invoked by initiate_scan_flow and the input they export     *)
(***************************************************************************)
StageFlows == {"site_scan", "fingerprint_detect", "directory_scan", "screenshot"}

\* the keyword arguments get_valid_flows builds for every stage flow
OrchestratorKwargs ==
    {"scan_id", "target_id", "scan_workspace_dir", "enabled_tools", "provider"}

\* the parameters of each stage flow function (none has a default)
FlowParameters(flowName) ==
    CASE flowName = "site_scan" ->
            {"scan_id", "target_name", "target_id", "scan_workspace_dir",
             "enabled_tools", "provider"}
      [] flowName = "screenshot" ->
            {"scan_id", "target_name", "target_id", "scan_workspace_dir",
             "enabled_tools", "provider"}
      [] flowName = "fingerprint_detect" ->
            {"scan_id", "target_name", "target_id", "scan_workspace_dir",
             "enabled_tools"}
      [] OTHER ->
            {"scan_id", "target_id", "scan_workspace_dir", "enabled_tools",
             "provider"}

\* every call binds, whatever it passes
BindsAnything(required, optional, kwargs) == TRUE

\* flow_func(**kwargs): the call binds iff every required parameter is
\* passed and no unknown keyword is
Binds(required, optional, kwargs) ==
    /\ required \subseteq kwargs
    /\ kwargs \subseteq (required \cup optional)

\* the export step of a stage flow whose call has bound: the lines it
\* produces, or "raised"
StageExport(flowName) ==
    CASE flowName = "directory_scan" ->
            [outcome |-> "ok", lines |-> export_sites_task.lines]
      [] flowName = "screenshot" ->
            [outcome |-> "ok", lines |-> ProviderYields("websites")]
      [] flowName = "site_scan" ->
            \* export_site_urls_task(output_file=..., provider=...)
            IF Binds({"target_id", "output_file"}, {"batch_size"},
                     {"output_file", "provider"})
            THEN [outcome |-> "ok", lines |-> export_site_urls_task.lines]
            ELSE [outcome |-> "raised", lines |-> {}]
      [] OTHER ->
            \* fingerprint_detect: TargetExportService(blacklist_service=...)
            IF Binds({}, {"blacklist_filter"}, {"blacklist_service"})
            THEN [outcome |-> "ok", lines |-> export_urls(inventory.websites).lines]
            ELSE [outcome |-> "raised", lines |-> {}]

InvokeStage ==
    \E flowName \in StageFlows :
        LET bound == Binds(FlowParameters(flowName), {}, OrchestratorKwargs)
            res == StageExport(flowName)
        IN  /\ stageRan' = flowName
            /\ stageOutcome' = IF bound THEN res.outcome ELSE "raised"
            /\ stageInput' = IF bound THEN res.lines ELSE {}
            /\ UNCHANGED <<scan_mode, provScan, snapshots, provVars, nonQuickVars>>

EmptyTables ==
    [subdomains |-> {}, host_ports |-> {}, websites |-> {}, endpoints |-> {}]

Rows(tables) ==
    Cardinality(tables.subdomains) + Cardinality(tables.host_ports)
      + Cardinality(tables.websites) + Cardinality(tables.endpoints)

\* the snapshot rows of the scan the provider serves, and those of another scan
SnapshotTables ==
    [subdomains : SUBSET Domains, host_ports : SUBSET HostPorts,
     websites : SUBSET StoredUrls, endpoints : SUBSET StoredUrls]

OtherScanTables ==
    [subdomains : SUBSET {<<"a.example.com">>},
     host_ports : SUBSET {[host |-> <<"a.example.com">>, port |-> 8080]},
     websites : SUBSET {http(<<"a.example.com">>)},
     endpoints : SUBSET {http(<<"a.example.com">>)}]

\* inventory, snapshot rows of the scan, snapshot rows of the other scan
QuickStores ==
    {st \in StageInventories
              \X {t \in SnapshotTables : Rows(t) <= MaxAssets}
              \X OtherScanTables :
        Rows(st[1]) + Rows(st[2]) + Rows(st[3]) <= MaxAssets}

\* the target, the stored rows and the provider's iterators before any call
QuickStores0 ==
    /\ provScan \in Scans
    /\ blacklistRules \in
          {{}, {[pattern |-> <<"internal.example.com">>, kind |-> "substring"]}}
    /\ targetRow \in {[type |-> "domain", name |-> <<"internal.example.com">>],
                      [type |-> "cidr", name |-> <<"10.0.0.0/30">>]}
    /\ \E st \in QuickStores :
          /\ inventory = st[1]
          /\ snapshots = [s \in Scans |-> IF s = provScan THEN st[2] ELSE st[3]]
    /\ iterCalled = ""
    /\ emitted = {}
    /\ exportSources = <<>>
    /\ exportResult = NoExport
    /\ exportTask = ""
    /\ stageRan = ""
    /\ stageOutcome = ""
    /\ stageInput = {}

QuickStart ==
    /\ scan_mode \in {FULL, QUICK}
    /\ QuickStores0

QuickInit ==
    QuickStart /\ LifeStart /\ StreamIdle /\ SinkIdle /\ AssetIdle /\ RaceIdle
    /\ DirIdle /\ LateIdle

StageInputNext == InvokeStage

SpecStageInput == QuickInit /\ [][StageInputNext]_vars

\* the lines the Snapshot provider of the scan holds for a stage
SnapshotInput(flowName) ==
    CASE flowName = "site_scan" -> SnapshotYields("host_port_urls")
      [] flowName = "directory_scan" ->
            IF SnapshotYields("websites") # {} THEN SnapshotYields("websites")
            ELSE SnapshotYields("default_urls")
      [] OTHER -> SnapshotYields("websites")

\* C22: in QUICK mode every stage takes its input from the Snapshot provider
\* of the current scan: the export of a stage that was invoked succeeds and
\* produces exactly that scan's snapshot values (site_scan: the host:port
\* URLs, fingerprint_detect: the website URLs), nothing from the inventory.
C22_QuickStagesReadSnapshots ==
    (scan_mode = QUICK /\ stageRan \in StageFlows) =>
        (stageOutcome = "ok" /\ stageInput = SnapshotInput(stageRan))

\* C36: every stage flow the orchestrator invokes binds the keyword arguments
\* it is passed, and the export task of the stage binds the arguments the
\* stage passes, so that the stage gets past its invocation and its export.
C36_InvokedStageBinds ==
    stageRan \in StageFlows => stageOutcome # "raised"

(***************************************************************************)
(* The two providers side by side                                          *)
(***************************************************************************)
QuickNext == ProviderIter

SpecQuick == QuickInit /\ [][QuickNext]_vars

\* the stored values behind the named iterator for the provider's scan
StoredForScan(name) ==
    CASE name = "subdomains" -> snapshots[provScan].subdomains
      [] name = "websites"   -> snapshots[provScan].websites
      [] name = "endpoints"  -> snapshots[provScan].endpoints
      [] OTHER ->
            UNION {snapshot_host_port_urls(m.host, m.port) :
                      m \in snapshots[provScan].host_ports}

\* C23: for any scan id the Snapshot provider's iterators yield exactly what
\* the snapshot tables hold for that scan id: nothing is missing, nothing of
\* another scan is yielded and no blacklist rule removes a value.
C23_SnapshotProviderYieldsScanRows ==
    (scan_mode = QUICK
       /\ iterCalled \in {"subdomains", "host_port_urls", "websites", "endpoints"})
    => emitted = StoredForScan(iterCalled)

\* The website iterator of a QUICK scan yielded a URL that a blacklist rule
\* matches, while another scan holds a website row that was not yielded.
C23_Witness ==
    /\ scan_mode = QUICK
    /\ iterCalled = "websites"
    /\ \E v \in emitted : Blacklisted(v)
    /\ \E s \in Scans \ {provScan} : snapshots[s].websites \ emitted # {}

\* the URLs the port rule gives for a set of (host, port) pairs
PortRuleUrls(pairs) ==
    {<<"http://">> \o m.host : m \in {x \in pairs : x.port = 80}}
      \cup {<<"https://">> \o m.host : m \in {x \in pairs : x.port = 443}}
      \cup UNION {{<<"http://">> \o m.host \o <<":", PortText(m.port)>>,
                   <<"https://">> \o m.host \o <<":", PortText(m.port)>>} :
                     m \in {x \in pairs : x.port \notin {80, 443}}}

\* C24: over the same (host, port) pairs and without blacklist rules the
\* Inventory provider and the Snapshot provider yield the same URL set: only
\* http://host for port 80, only https://host for port 443, and both
\* http://host:port and https://host:port for any other port.
C24_ProvidersAgreeOnHostPortUrls ==
    (iterCalled = "host_port_urls" /\ blacklistRules = {}
       /\ inventory.host_ports = snapshots[provScan].host_ports)
    => emitted = PortRuleUrls(inventory.host_ports)

\* The Inventory provider of a full scan yielded the two URLs of a pair with
\* a port other than 80 and 443 that the scan's snapshots hold as well.
C24_Witness ==
    /\ scan_mode = FULL
    /\ iterCalled = "host_port_urls"
    /\ blacklistRules = {}
    /\ inventory.host_ports = snapshots[provScan].host_ports
    /\ \E m \in inventory.host_ports : m.port \notin {80, 443}
    /\ Cardinality(emitted) = 2

(***************************************************************************)
(* Results directories (ScanCreationService.create_scans)                  *)
(***************************************************************************)
\* the values uuid.uuid4().hex[:8] can take
Uuid8 == {"a3f2b7e9", "5d0c4e11"}

\* _generate_scan_workspace_dir: scan_{timestamp}_{uuid8} under the base
\* directory; the timestamp has a resolution of one second
generate_scan_workspace_dir(timestamp, unique_id) ==
    [timestamp |-> timestamp, unique_id |-> unique_id]

\* create_scans: one directory per target, then one bulk_create; results_dir
\* has no unique constraint and no row is looked up
CreateScanRows ==
    \E n \in 1..MaxTargets :
        /\ Len(resultsDirs) + n <= MaxScanRows
        /\ \E ids \in [1..n -> Uuid8] :
              resultsDirs' = resultsDirs \o
                  [i \in 1..n |-> generate_scan_workspace_dir(now, ids[i])]
        /\ UNCHANGED <<now, nonDirVars>>

\* a second passes
Tick ==
    /\ now < MaxClock
    /\ now' = now + 1
    /\ UNCHANGED <<resultsDirs, nonDirVars>>

DirInit ==
    DirIdle /\ LifeStart /\ StreamIdle /\ SinkIdle /\ AssetIdle /\ RaceIdle
    /\ ProvIdle /\ QuickIdle /\ LateIdle

DirNext == CreateScanRows \/ Tick

SpecDirs == DirInit /\ [][DirNext]_vars

\* C25: no two scan rows ever share a results-directory path, also when they
\* are created by one create_scans call or within the same second.
C25_ResultsDirsDistinct ==
    \A i, j \in DOMAIN resultsDirs :
        i # j => resultsDirs[i] # resultsDirs[j]

(***************************************************************************)
(* Two-phase delete of scans (Scan.objects, delete_scans_two_phase)        *)
(***************************************************************************)
ScanIds == 1..MaxScanIds

\* every scan the other subsystems' variables describe is as at creation
EarlyIdle ==
    LifeStart /\ StreamIdle /\ SinkIdle /\ AssetIdle /\ RaceIdle /\ ProvIdle
    /\ QuickIdle /\ DirIdle

\* Scan.all_objects: the plain manager, every stored row
all_objects == scanTable

objects_with_deleted == scanTable

\* Scan.objects: SoftDeleteManager.get_queryset filters deleted_at IS NULL
objects == {row \in scanTable : row.deleted_at = NULL}

\* delete_scans_two_phase, first phase: set deleted_at on the rows and hand the
\* ids to the background job
DeleteScansTwoPhase ==
    \E ids \in (SUBSET {row.id : row \in objects}) \ {{}} :
        /\ scanTable' = {IF row.id \in ids
                            THEN [row EXCEPT !.deleted_at = "now"]
                            ELSE row : row \in scanTable}
        /\ hardDeleteQueue' = hardDeleteQueue \cup ids
        /\ deleteRequested' = deleteRequested \cup ids
        /\ scanOp' = "delete"
        /\ UNCHANGED <<readResult, nonDelVars>>

\* hard_delete_scans, run by the background job for one queued id
HardDeleteScans ==
    \E id \in hardDeleteQueue :
        /\ scanTable' = {row \in all_objects : row.id # id}
        /\ hardDeleteQueue' = hardDeleteQueue \ {id}
        /\ scanOp' = "hard_delete"
        /\ UNCHANGED <<deleteRequested, readResult, nonDelVars>>

\* ScanViewSet.get_queryset / get_all_scans: a read through the default manager
GetAllScans ==
    /\ readResult' = {row.id : row \in objects}
    /\ scanOp' = "read"
    /\ UNCHANGED <<scanTable, hardDeleteQueue, deleteRequested, nonDelVars>>

DelInit ==
    /\ \E ids \in SUBSET ScanIds :
          scanTable = {[id |-> i, deleted_at |-> NULL] : i \in ids}
    /\ hardDeleteQueue = {}
    /\ deleteRequested = {}
    /\ readResult = {}
    /\ scanOp = ""
    /\ EarlyIdle
    /\ RunIdle
    /\ NewIdle

DelNext == DeleteScansTwoPhase \/ HardDeleteScans \/ GetAllScans

SpecDelete == DelInit /\ [][DelNext]_vars

\* C26: a read through the default query path that follows the soft-delete
\* phase of delete(scan_ids) returns none of those scans, whether or not the
\* background hard-delete has run.
C26_SoftDeletedInvisible ==
    scanOp = "read" => readResult \cap deleteRequested = {}

\* a read returned rows while a soft-deleted row was still stored
C26_Witness ==
    /\ scanOp = "read"
    /\ readResult # {}
    /\ \E row \in scanTable : row.id \in deleteRequested /\ row.id \in hardDeleteQueue

(***************************************************************************)
(* One run of a stage flow: port_scan_flow, site_scan_flow and             *)
(* directory_scan_flow, from the export step to the returned dict          *)
(***************************************************************************)
RunFlows == {"port_scan", "site_scan", "directory_scan"}

SequentialFlows == {"port_scan", "site_scan"}

\* the enabled_tools dicts of the model: one or two tools
ToolLists == {<<"tool_a">>, <<"tool_a", "tool_b">>}

\* what a tool's max_workers can be set to; 0 stands for a missing key, None
\* or 0, which _get_max_workers all treats alike
WorkerConfigs == 0..MaxWorkers

\* the row counts one tool run or one per-site task reports
RowCounts == {0, 1}

DEFAULT_MAX_WORKERS == 5

\* _get_max_workers
get_max_workers(max_workers) ==
    IF max_workers > 0 THEN max_workers ELSE DEFAULT_MAX_WORKERS

Min(a, b) == IF a <= b THEN a ELSE b

\* the lines of sites.txt, by position
Sites == 1..site_count

SitesList == [i \in 1..site_count |-> i]

never_skips(count) == FALSE

\* `if site_count == 0:` / `if host_count == 0:` / `if total_urls == 0:`
\* the early return of a stage flow after its export step
skips_empty_input(count) == count = 0

\* the export step of the flow: "raised" when the task call does not bind
RunExport(flowName) ==
    CASE flowName = "site_scan" -> StageExport("site_scan").outcome
      [] OTHER -> "ok"

\* the dict a flow returns
FlowResult(rows, successful, failed, processed, failed_count) ==
    [raised |-> FALSE, success |-> TRUE, rows |-> rows,
     successful |-> successful, failed |-> failed,
     processed_sites |-> processed, failed_sites_count |-> failed_count]

Raised == [NoReturn EXCEPT !.raised = TRUE]

\* Step 1 of a stage flow: the export, and the early return on no input
ExportInput ==
    /\ runPc = "export"
    /\ IF RunExport(runFlow) = "raised"
       THEN /\ stageReturn' = Raised
            /\ runPc' = "done"
       ELSE IF skips_empty_input(site_count)
       THEN /\ stageReturn' = FlowResult(0, {}, <<>>, 0, 0)
            /\ runPc' = "done"
       ELSE /\ runPc' = "tools"
            /\ UNCHANGED stageReturn
    /\ UNCHANGED <<runFlow, enabled_tools, tool_config, site_count, toolIdx,
                   tool_stats, failed_tools, toolRuns, processed_records,
                   scan_params_list, batch_start, batch_params, submittedTasks,
                   inflight, taskFailed, directories_found, processed_sites,
                   failed_sites, nonRunVars>>

\* how one tool of a sequential stage ends: its command is not built, or its
\* run returns a result with some rows, times out, or raises
ToolOutcomes ==
    {[kind |-> "ok", rows |-> r] : r \in RowCounts}
    \cup {[kind |-> k, rows |-> 0] : k \in {"build_error", "timeout", "error"}}

\* _run_scans_sequentially: one iteration of the loop over enabled_tools
RunToolSequentially ==
    /\ runPc = "tools"
    /\ runFlow \in SequentialFlows
    /\ toolIdx <= Len(enabled_tools)
    /\ \E out \in ToolOutcomes :
          LET tool_name == enabled_tools[toolIdx]
          IN  /\ toolRuns' = IF out.kind = "build_error"
                                THEN toolRuns ELSE toolRuns \cup {tool_name}
              /\ IF out.kind = "ok"
                 THEN /\ tool_stats' = tool_stats \cup {tool_name}
                      /\ processed_records' = processed_records + out.rows
                      /\ UNCHANGED failed_tools
                 ELSE /\ failed_tools' = Append(failed_tools, tool_name)
                      /\ UNCHANGED <<tool_stats, processed_records>>
    /\ toolIdx' = toolIdx + 1
    /\ UNCHANGED <<runFlow, enabled_tools, tool_config, site_count, runPc,
                   scan_params_list, batch_start, batch_params, submittedTasks,
                   inflight, taskFailed, directories_found, processed_sites,
                   failed_sites, stageReturn, nonRunVars>>

\* the names _run_scans_sequentially returns as successful
successful_tool_names ==
    IF tool_stats = {} THEN {}
    ELSE {enabled_tools[i] : i \in DOMAIN enabled_tools}
            \ {failed_tools[i] : i \in DOMAIN failed_tools}

\* port_scan_flow / site_scan_flow after the loop: the returned dict
SequentialReturn ==
    /\ runPc = "tools"
    /\ runFlow \in SequentialFlows
    /\ toolIdx > Len(enabled_tools)
    /\ stageReturn' = FlowResult(processed_records, successful_tool_names,
                                 failed_tools, 0, 0)
    /\ runPc' = "done"
    /\ UNCHANGED <<runFlow, enabled_tools, tool_config, site_count, toolIdx,
                   tool_stats, failed_tools, toolRuns, processed_records,
                   scan_params_list, batch_start, batch_params, submittedTasks,
                   inflight, taskFailed, directories_found, processed_sites,
                   failed_sites, nonRunVars>>

\* _run_scans_concurrently, head of the loop over enabled_tools: the wordlist
\* is prepared and one command per site is built
StartDirectoryTool ==
    /\ runPc = "tools"
    /\ runFlow = "directory_scan"
    /\ toolIdx <= Len(enabled_tools)
    /\ \E wordlist_ok \in BOOLEAN, build_failed \in SUBSET Sites :
          LET params == SelectSeq(SitesList, LAMBDA u : u \notin build_failed)
              failed == SelectSeq(SitesList, LAMBDA u : u \in build_failed)
          IN  IF ~wordlist_ok
              THEN /\ build_failed = {}
                   /\ failed_sites' = failed_sites \o SitesList
                   /\ toolIdx' = toolIdx + 1
                   /\ UNCHANGED <<scan_params_list, runPc>>
              ELSE /\ failed_sites' = failed_sites \o failed
                   /\ scan_params_list' = params
                   /\ IF params = <<>>
                      THEN /\ toolIdx' = toolIdx + 1
                           /\ UNCHANGED runPc
                      ELSE /\ runPc' = "batches"
                           /\ UNCHANGED toolIdx
    /\ batch_start' = 0
    /\ UNCHANGED <<runFlow, enabled_tools, tool_config, site_count, tool_stats,
                   failed_tools, toolRuns, processed_records, batch_params,
                   submittedTasks, inflight, taskFailed, directories_found,
                   processed_sites, stageReturn, nonRunVars>>

batch_end_all(start, max_workers, total_tasks) == total_tasks

\* batch_end = min(batch_start + max_workers, total_tasks)
batch_end(start, max_workers, total_tasks) ==
    Min(start + max_workers, total_tasks)

\* the batch_end of the batch the loop is at
BatchEnd ==
    batch_end(batch_start, get_max_workers(tool_config[toolIdx]),
              Len(scan_params_list))

\* head of the batch loop: batch_params = scan_params_list[batch_start:batch_end]
BeginBatch ==
    /\ runPc = "batches"
    /\ batch_params = <<>>
    /\ batch_params' = SubSeq(scan_params_list, batch_start + 1, BatchEnd)
    /\ submittedTasks' = 0
    /\ UNCHANGED <<runFlow, enabled_tools, tool_config, site_count, runPc,
                   toolIdx, tool_stats, failed_tools, toolRuns,
                   processed_records, scan_params_list, batch_start, inflight,
                   taskFailed, directories_found, processed_sites,
                   failed_sites, stageReturn, nonRunVars>>

\* _execute_batch, first loop: run_and_stream_save_directories_task.submit
SubmitTask ==
    /\ runPc = "batches"
    /\ submittedTasks < Len(batch_params)
    /\ inflight' = inflight \cup {batch_params[submittedTasks + 1]}
    /\ submittedTasks' = submittedTasks + 1
    /\ toolRuns' = toolRuns \cup {enabled_tools[toolIdx]}
    /\ UNCHANGED <<runFlow, enabled_tools, tool_config, site_count, runPc,
                   toolIdx, tool_stats, failed_tools, processed_records,
                   scan_params_list, batch_start, batch_params, taskFailed,
                   directories_found, processed_sites, failed_sites,
                   stageReturn, nonRunVars>>

\* how one per-site task ends
TaskOutcomes ==
    {[kind |-> "ok", rows |-> r] : r \in RowCounts}
    \cup {[kind |-> k, rows |-> 0] : k \in {"timeout", "error"}}

\* a submittedTasks task ends: its future holds a result or an exception
TaskFinish ==
    /\ runPc = "batches"
    /\ \E site \in inflight, out \in TaskOutcomes :
          /\ inflight' = inflight \ {site}
          /\ IF out.kind = "ok"
             THEN /\ directories_found' = directories_found + out.rows
                  /\ UNCHANGED taskFailed
             ELSE /\ taskFailed' = taskFailed \cup {site}
                  /\ UNCHANGED directories_found
    /\ UNCHANGED <<runFlow, enabled_tools, tool_config, site_count, runPc,
                   toolIdx, tool_stats, failed_tools, toolRuns,
                   processed_records, scan_params_list, batch_start,
                   batch_params, submittedTasks, processed_sites, failed_sites,
                   stageReturn, nonRunVars>>

batch_processed_all(params, failed) == Len(params)

\* len(batch_params) - len(batch_failed)
batch_processed(params, failed) == Len(params) - Len(failed)

\* _execute_batch, second loop (every future.result() has returned or raised)
\* and the accounting of the batch in _run_scans_concurrently
CollectBatch ==
    /\ runPc = "batches"
    /\ batch_params # <<>>
    /\ submittedTasks = Len(batch_params)
    /\ inflight = {}
    /\ LET batch_failed == SelectSeq(batch_params, LAMBDA u : u \in taskFailed)
       IN  /\ processed_records' = processed_records + directories_found
           /\ processed_sites' =
                 processed_sites + batch_processed(batch_params, batch_failed)
           /\ failed_sites' = failed_sites \o batch_failed
    /\ IF BatchEnd = Len(scan_params_list)
       THEN /\ toolIdx' = toolIdx + 1
            /\ runPc' = "tools"
            /\ batch_start' = 0
       ELSE /\ batch_start' = BatchEnd
            /\ UNCHANGED <<toolIdx, runPc>>
    /\ batch_params' = <<>>
    /\ submittedTasks' = 0
    /\ taskFailed' = {}
    /\ directories_found' = 0
    /\ UNCHANGED <<runFlow, enabled_tools, tool_config, site_count, tool_stats,
                   failed_tools, toolRuns, scan_params_list, inflight,
                   stageReturn, nonRunVars>>

\* directory_scan_flow after _run_scans_concurrently: the returned dict
DirectoryReturn ==
    /\ runPc = "tools"
    /\ runFlow = "directory_scan"
    /\ toolIdx > Len(enabled_tools)
    /\ stageReturn' = FlowResult(processed_records, {}, <<>>, processed_sites,
                                 Len(failed_sites))
    /\ runPc' = "done"
    /\ UNCHANGED <<runFlow, enabled_tools, tool_config, site_count, toolIdx,
                   tool_stats, failed_tools, toolRuns, processed_records,
                   scan_params_list, batch_start, batch_params, submittedTasks,
                   inflight, taskFailed, directories_found, processed_sites,
                   failed_sites, nonRunVars>>

RunStart ==
    /\ runFlow \in RunFlows
    /\ enabled_tools \in ToolLists
    /\ tool_config \in [DOMAIN enabled_tools -> WorkerConfigs]
    /\ runFlow \in SequentialFlows => \A i \in DOMAIN tool_config : tool_config[i] = 0
    /\ site_count \in 0..MaxSites
    /\ runPc = "export"
    /\ toolIdx = 1
    /\ tool_stats = {}
    /\ failed_tools = <<>>
    /\ toolRuns = {}
    /\ processed_records = 0
    /\ scan_params_list = <<>>
    /\ batch_start = 0
    /\ batch_params = <<>>
    /\ submittedTasks = 0
    /\ inflight = {}
    /\ taskFailed = {}
    /\ directories_found = 0
    /\ processed_sites = 0
    /\ failed_sites = <<>>
    /\ stageReturn = NoReturn

RunInit == RunStart /\ EarlyIdle /\ DelIdle /\ NewIdle

RunNext ==
    \/ ExportInput
    \/ RunToolSequentially
    \/ SequentialReturn
    \/ StartDirectoryTool
    \/ BeginBatch
    \/ SubmitTask
    \/ TaskFinish
    \/ CollectBatch
    \/ DirectoryReturn

SpecStageRun == RunInit /\ [][RunNext]_vars

\* C27: a stage whose export step wrote no input line starts no tool and
\* returns success with zero rows.
C27_EmptyInputSkipsTools ==
    (runPc = "done" /\ ~stageReturn.raised /\ site_count = 0)
        => /\ stageReturn.success
           /\ stageReturn.rows = 0
           /\ toolRuns = {}
           /\ stageReturn.processed_sites = 0
           /\ stageReturn.failed_sites_count = 0

\* a directory or port stage returned after an export of zero lines
C27_Witness ==
    /\ runPc = "done"
    /\ runFlow = "directory_scan"
    /\ site_count = 0
    /\ stageReturn = FlowResult(0, {}, <<>>, 0, 0)

\* every tool the stage was configured with failed
EveryToolErrored ==
    IF runFlow = "directory_scan"
    THEN processed_sites = 0
    ELSE Len(failed_tools) = Len(enabled_tools)

\* C28: a stage that had input is reported successful only if a tool produced
\* rows, and is reported failed when every configured tool errored.
C28_SuccessNeedsRows ==
    (runPc = "done" /\ ~stageReturn.raised /\ site_count > 0)
        => /\ stageReturn.success => stageReturn.rows > 0
           /\ EveryToolErrored => ~stageReturn.success

\* C29: while a directory scan runs one tool, the per-site tasks in flight
\* never number more than that tool's max_workers (5 when it sets none).
C29_InFlightWithinMaxWorkers ==
    runPc = "batches"
        => Cardinality(inflight) <= get_max_workers(tool_config[toolIdx])

\* a full batch runs at once while further sites wait for the next batch
C29_Witness ==
    /\ runPc = "batches"
    /\ tool_config[toolIdx] > 0
    /\ Cardinality(inflight) = tool_config[toolIdx]
    /\ BatchEnd < Len(scan_params_list)

\* C30: with one tool over N sites, a site that times out or errors does not
\* keep the others from being scanned (every site that is not in failed_sites
\* is counted as processed), and processed_sites plus failed_sites_count is N.
C30_OneToolAccountsForEverySite ==
    (runPc = "done" /\ runFlow = "directory_scan" /\ ~stageReturn.raised
       /\ Len(enabled_tools) = 1)
        => /\ stageReturn.processed_sites + stageReturn.failed_sites_count
                = site_count
           /\ stageReturn.failed_sites_count = Len(failed_sites)
           /\ stageReturn.processed_sites =
                 Cardinality(Sites \ {failed_sites[i] : i \in DOMAIN failed_sites})

\* the task of the second of three sites raised and the other two sites were
\* processed
C30_Witness ==
    /\ runPc = "done"
    /\ runFlow = "directory_scan"
    /\ Len(enabled_tools) = 1
    /\ site_count = 3
    /\ scan_params_list = <<1, 2, 3>>
    /\ failed_sites = <<2>>
    /\ stageReturn.processed_sites = 2
    /\ stageReturn.failed_sites_count = 1

\* C40: whatever the number of configured tools, the processed_sites and the
\* failed_sites_count a directory scan reports are each at most the number of
\* exported site URLs.
C40_SiteCountsWithinExported ==
    (runPc = "done" /\ runFlow = "directory_scan" /\ ~stageReturn.raised)
        => /\ stageReturn.processed_sites <= site_count
           /\ stageReturn.failed_sites_count <= site_count

(***************************************************************************)
(* One worker node: WorkerNodeViewSet.heartbeat and .destroy               *)
(***************************************************************************)
\* the values WorkerNode.status takes
WorkerStatuses ==
    {"pending", "deploying", "online", "offline", "maintenance", "error", "upgrading"}

OldIdle == EarlyIdle /\ DelIdle /\ RunIdle

\* heartbeat: worker = self.get_object(); a missing row answers 404
HeartbeatGetObject ==
    /\ hbPc = "idle"
    /\ heartbeatsDone < MaxHeartbeats
    /\ workerExists
    /\ hbPc' = "update_load"
    /\ hbSeen' = workerStatus
    /\ UNCHANGED <<workerExists, workerStatus, loadStored, heartbeatsDone, destroyPc,
                   nonWorkerVars>>

\* heartbeat: worker_load_service.update_load(worker.id, cpu, mem)
HeartbeatUpdateLoad ==
    /\ hbPc = "update_load"
    /\ loadStored' = TRUE
    /\ hbPc' = "first"
    /\ UNCHANGED <<workerExists, workerStatus, hbSeen, heartbeatsDone, destroyPc,
                   nonWorkerVars>>

\* heartbeat: `if worker.status not in ('online', 'offline')` sets the status
\* to online and saves it; save(update_fields=...) raises when the row is gone
HeartbeatFirst ==
    /\ hbPc = "first"
    /\ hbPc' = "idle"
    /\ IF hbSeen \notin {"online", "offline"}
       THEN IF workerExists
            THEN /\ workerStatus' = "online"
                 /\ heartbeatsDone' = heartbeatsDone + 1
            ELSE UNCHANGED <<workerStatus, heartbeatsDone>>
       ELSE /\ heartbeatsDone' = heartbeatsDone + 1
            /\ UNCHANGED workerStatus
    /\ UNCHANGED <<workerExists, loadStored, hbSeen, destroyPc, nonWorkerVars>>

\* destroy: worker = self.get_object()
DestroyGetObject ==
    /\ destroyPc = "idle"
    /\ workerExists
    /\ destroyPc' = "delete_load"
    /\ UNCHANGED <<workerExists, workerStatus, loadStored, hbPc, hbSeen, heartbeatsDone,
                   nonWorkerVars>>

\* destroy: worker_load_service.delete_load(worker_id)
DestroyDeleteLoad ==
    /\ destroyPc = "delete_load"
    /\ loadStored' = FALSE
    /\ destroyPc' = "delete_worker"
    /\ UNCHANGED <<workerExists, workerStatus, hbPc, hbSeen, heartbeatsDone,
                   nonWorkerVars>>

\* destroy: self.worker_service.delete_worker(worker_id), then the response
DestroyDeleteWorker ==
    /\ destroyPc = "delete_worker"
    /\ workerExists' = FALSE
    /\ destroyPc' = "done"
    /\ UNCHANGED <<workerStatus, loadStored, hbPc, hbSeen, heartbeatsDone,
                   nonWorkerVars>>

\* the entry of the heartbeat store reaches its time to live
LoadExpires ==
    /\ loadStored
    /\ loadStored' = FALSE
    /\ UNCHANGED <<workerExists, workerStatus, hbPc, hbSeen, heartbeatsDone, destroyPc,
                   nonWorkerVars>>

WorkerInit ==
    /\ workerExists = TRUE
    /\ workerStatus \in WorkerStatuses
    /\ loadStored = FALSE
    /\ hbPc = "idle"
    /\ hbSeen = ""
    /\ heartbeatsDone = 0
    /\ destroyPc = "idle"
    /\ OldIdle
    /\ TimeoutIdle
    /\ LazyIdle
    /\ StepIdle
    /\ EntryIdle

WorkerNext ==
    \/ HeartbeatGetObject
    \/ HeartbeatUpdateLoad
    \/ HeartbeatFirst
    \/ DestroyGetObject
    \/ DestroyDeleteLoad
    \/ DestroyDeleteWorker
    \/ LoadExpires

SpecWorker == WorkerInit /\ [][WorkerNext]_vars

\* C31: once a heartbeat of the worker has been processed, the status of the
\* worker is online, whatever it was before.
C31_OnlineAfterFirstHeartbeat ==
    (heartbeatsDone >= 1 /\ workerExists) => workerStatus = "online"

\* C39: once the destroy request has completed, the heartbeat store holds no
\* load entry of the worker, also when a heartbeat was served concurrently.
C39_NoLoadAfterDestroy ==
    destroyPc = "done" => ~loadStored

(***************************************************************************)
(* The timeout a stage flow passes to a tool run                           *)
(***************************************************************************)
TimeoutFlows == {"port_scan", "site_scan", "fingerprint_detect", "directory_scan"}

\* the timeout options of the model: 'auto' or a number of seconds
TimeoutOptions ==
    {[auto |-> TRUE, seconds |-> 0]}
    \cup {[auto |-> FALSE, seconds |-> n] : n \in {30, 120, 900}}

\* the sizes of the input the dynamic timeout is derived from
LineCounts == {0, 20, 100, 500, 2000}

Maximum(a, b) == IF a >= b THEN a ELSE b

\* site_scan_flow._calculate_timeout_by_line_count, base_per_time = 1
calculate_timeout_by_line_count(lines) == Maximum(lines * 1, 60)

\* port_scan_flow.calculate_port_scan_timeout with naabu's 100 default ports
calculate_port_scan_timeout(lines) == Maximum(60, (lines * 100) \div 2)

\* directory_scan_flow.calculate_directory_scan_timeout, lines of the wordlist
calculate_directory_scan_timeout(lines) == Maximum(60, lines * 1)

\* fingerprint_detect_flow.calculate_fingerprint_detect_timeout
calculate_fingerprint_detect_timeout(url_count) == Maximum(300, url_count * 10)

\* the timeout each stage flow derives from the option and the input
get_tool_timeout(flowName, option, lines) ==
    CASE flowName = "site_scan" ->
            IF option.auto THEN calculate_timeout_by_line_count(lines)
            ELSE Maximum(calculate_timeout_by_line_count(lines), option.seconds)
      [] flowName = "fingerprint_detect" ->
            calculate_fingerprint_detect_timeout(lines)
      [] flowName = "port_scan" ->
            IF option.auto THEN calculate_port_scan_timeout(lines)
            ELSE option.seconds
      [] OTHER ->
            IF option.auto THEN calculate_directory_scan_timeout(lines)
            ELSE option.seconds

\* the stage flow computes the timeout and calls the tool task with it
RunToolWithTimeout ==
    /\ timeoutPc = "config"
    /\ toolTimeout' = get_tool_timeout(timeoutFlow, timeoutOption, line_count)
    /\ timeoutPc' = "run"
    /\ UNCHANGED <<timeoutFlow, timeoutOption, line_count, nonTimeoutVars>>

TimeoutInit ==
    /\ timeoutFlow \in TimeoutFlows
    /\ timeoutOption \in TimeoutOptions
    /\ line_count \in LineCounts
    /\ timeoutPc = "config"
    /\ toolTimeout = 0
    /\ OldIdle
    /\ WorkerIdle
    /\ LazyIdle
    /\ StepIdle
    /\ EntryIdle

TimeoutNext == RunToolWithTimeout

SpecTimeout == TimeoutInit /\ [][TimeoutNext]_vars

\* C32: a tool whose timeout option is an integer runs with exactly that
\* many seconds as its timeout; a timeout derived from the size of the input
\* is used only when the option is "auto".
C32_IntegerTimeoutIsExact ==
    (timeoutPc = "run" /\ ~timeoutOption.auto)
        => toolTimeout = timeoutOption.seconds

(***************************************************************************)
(* Lazy loading of the blacklist by one DatabaseTargetProvider             *)
(* (get_blacklist_filter, database_provider.py)                            *)
(***************************************************************************)
RuleSets == {R \in SUBSET RulePool : Cardinality(R) <= MaxRules}

\* inventories that hold both domains as subdomains, so that a rule on
\* internal.example.com changes what iter_subdomains yields
LazyInventories == {inv \in Inventories : inv.subdomains = Domains}

always_loads(loaded) == TRUE

\* `if self._blacklist_filter is None:`
needs_load(loaded) == ~loaded

\* An iterator of the provider is consumed.  Each iterator calls
\* self.get_blacklist_filter(), which loads the rules of the target from the
\* rule store when the cache is empty and returns the cached filter otherwise.
LazyIter ==
    /\ iterCalls < MaxIterCalls
    /\ IF needs_load(filterLoaded)
       THEN /\ blacklistRules' = ruleStore
            /\ getRulesCalls' = getRulesCalls + 1
       ELSE UNCHANGED <<blacklistRules, getRulesCalls>>
    /\ filterLoaded' = TRUE
    /\ UNCHANGED <<targetRow, inventory>>
    /\ \E name \in Iterators :
          /\ iterCalled' = name
          /\ emitted' = Yields(name)'
    /\ usedRules' = usedRules \cup {blacklistRules'}
    /\ iterCalls' = iterCalls + 1
    /\ UNCHANGED <<ruleStore, ruleEdits, exportSources, exportResult, exportTask,
                   nonLazyVars>>

\* The rules of the target are edited in the rule store while the provider
\* instance is alive (blacklist API; nothing notifies the provider).
EditRules ==
    /\ ruleEdits < MaxRuleEdits
    /\ \E R \in RuleSets \ {ruleStore} : ruleStore' = R
    /\ ruleEdits' = ruleEdits + 1
    /\ UNCHANGED <<filterLoaded, getRulesCalls, iterCalls, usedRules, provVars,
                   nonLazyVars>>

LazyStart ==
    /\ ruleStore \in RuleSets
    /\ filterLoaded = FALSE
    /\ getRulesCalls = 0
    /\ iterCalls = 0
    /\ ruleEdits = 0
    /\ usedRules = {}
    /\ blacklistRules = {}
    /\ targetRow \in TargetRows
    /\ inventory \in LazyInventories
    /\ iterCalled = ""
    /\ emitted = {}
    /\ exportSources = <<>>
    /\ exportResult = NoExport
    /\ exportTask = ""

LazyInit ==
    /\ LazyStart
    /\ LifeStart /\ StreamIdle /\ SinkIdle /\ AssetIdle /\ RaceIdle
    /\ QuickIdle /\ DirIdle /\ DelIdle /\ RunIdle
    /\ WorkerIdle /\ TimeoutIdle /\ StepIdle /\ EntryIdle

LazyNext == LazyIter \/ EditRules

SpecLazy == LazyInit /\ [][LazyNext]_vars

\* C33: one Inventory provider instance calls get_rules at most once, on its
\* first iterator call, and every iterator call of that instance filters with
\* the rule set loaded then, whatever the rule store holds by now.
C33_RulesLoadedOnce ==
    /\ getRulesCalls <= 1
    /\ getRulesCalls = (IF iterCalls >= 1 THEN 1 ELSE 0)
    /\ Cardinality(usedRules) <= 1
    /\ iterCalls >= 1 => /\ usedRules = {blacklistRules}
                         /\ emitted = Yields(iterCalled)

\* the rules were edited after the first call and a later iterator call still
\* filtered with the rules loaded first, dropping a value the store now allows
\* or keeping one it now blocks
C33_Witness ==
    /\ iterCalls >= 2
    /\ ruleEdits = 1
    /\ getRulesCalls = 1
    /\ ruleStore # blacklistRules
    /\ iterCalled = "subdomains"
    /\ emitted # {d \in inventory.subdomains : Passes(ruleStore, d)}

(***************************************************************************)
(* One save_and_sync call statement by statement, under the retry loop of  *)
(* _save_batch_with_retry, while scans are soft-deleted by another process. *)
(* No transaction and no lock spans the statements of save_and_sync.       *)
(***************************************************************************)
\* step 2 of save_and_sync: EndpointService.bulk_upsert, or the host-port
\* asset service's insert with ignore_conflicts
sync_assets(path, rows, target, items) ==
    IF path = "hostport" THEN bulk_create_ignore_conflicts(rows, target, items)
    ELSE bulk_upsert(rows, target, items)

\* _save_batch_with_retry(batch, ...) is entered with a new batch (the
\* host-port task calls save_and_sync directly).
SubmitBatch(scan, items) ==
    /\ sinkPc \in {"idle", "done", "failed"}
    /\ sinkCalls < MaxSinkCalls
    /\ items # <<>>
    /\ sinkCalls' = sinkCalls + 1
    /\ sinkScan' = scan
    /\ sinkItems' = items
    /\ sinkAttempt' = 0
    /\ sinkEvents' = {}
    /\ preSnap' = snapRows
    /\ preAsset' = assetRows
    /\ sinkPc' = "call"
    /\ sinkOutcome' = ""
    /\ UNCHANGED <<sinkPath, deleted, snapRows, assetRows, submitted, seenDup, sinkTick>>
    /\ UNCHANGED nonStepVars

\* if not DjangoScanRepository().exists(scan_id): return
CheckScanExists ==
    /\ sinkPc = "call"
    /\ IF SaveAndSyncProceeds(sinkItems, ScanExists(sinkScan, deleted))
       THEN sinkPc' = "checked" /\ UNCHANGED sinkOutcome
       ELSE sinkPc' = "done" /\ sinkOutcome' = "dropped"
    /\ UNCHANGED <<sinkPath, deleted, snapRows, assetRows, submitted, seenDup, sinkTick,
                   sinkScan, sinkItems, sinkAttempt, sinkCalls, sinkEvents, preSnap, preAsset>>
    /\ UNCHANGED nonStepVars

\* self.snapshot_repo.save_snapshots(items)
StepSaveSnapshots ==
    /\ sinkPc = "checked"
    /\ snapRows' = save_snapshots(snapRows, sinkScan, sinkItems)
    /\ sinkPc' = "snapshots_saved"
    /\ UNCHANGED <<sinkPath, deleted, assetRows, submitted, seenDup, sinkTick, sinkOutcome,
                   sinkScan, sinkItems, sinkAttempt, sinkCalls, sinkEvents, preSnap, preAsset>>
    /\ UNCHANGED nonStepVars

\* the except branches of _save_batch_with_retry for a database error
RetryOrRaise(event) ==
    /\ sinkEvents' = sinkEvents \cup {event}
    /\ IF sinkAttempt < max_retries - 1
       THEN /\ sinkAttempt' = sinkAttempt + 1
            /\ sinkPc' = "call"
            /\ UNCHANGED sinkOutcome
       ELSE /\ sinkPc' = "failed"
            /\ sinkOutcome' = "raised"
            /\ UNCHANGED sinkAttempt

\* self.asset_service.bulk_upsert(asset_items); PostgreSQL rejects an upsert
\* statement that names one conflict key twice
StepSyncAssets ==
    /\ sinkPc = "snapshots_saved"
    /\ IF sinkPath = "endpoint" /\ bulk_upsert_raises(sinkItems)
       THEN /\ RetryOrRaise("upsert_rejected")
            /\ UNCHANGED assetRows
       ELSE /\ assetRows' = sync_assets(sinkPath, assetRows, TargetOf(sinkScan), sinkItems)
            /\ sinkPc' = "done"
            /\ sinkOutcome' = "saved"
            /\ UNCHANGED <<sinkAttempt, sinkEvents>>
    /\ UNCHANGED <<sinkPath, deleted, snapRows, submitted, seenDup, sinkTick,
                   sinkScan, sinkItems, sinkCalls, preSnap, preAsset>>
    /\ UNCHANGED nonStepVars

\* The next database statement of the endpoint task's call raises
\* OperationalError (connection lost): before anything was written, or after
\* the snapshot rows were written and before the asset upsert.
DatabaseErrorRaised ==
    /\ sinkPath = "endpoint"
    /\ sinkPc \in {"call", "checked", "snapshots_saved"}
    /\ RetryOrRaise(IF sinkPc = "snapshots_saved" THEN "partial" ELSE "nothing_written")
    /\ UNCHANGED <<sinkPath, deleted, snapRows, assetRows, submitted, seenDup, sinkTick,
                   sinkScan, sinkItems, sinkCalls, preSnap, preAsset>>
    /\ UNCHANGED nonStepVars

\* what an earlier scan of the target saved before the sink call starts:
\* nothing, or one row
PriorBatches(path) ==
    {<<>>, <<Item("k1", IF path = "hostport" THEN "" ELSE "v1")>>}

StepStart ==
    /\ sinkPath \in {"endpoint", "hostport"}
    /\ deleted = {}
    /\ \E prior \in PriorBatches(sinkPath) :
          /\ snapRows = save_snapshots([slot \in Slots |-> <<>>], "s2", prior)
          /\ assetRows = sync_assets(sinkPath, [slot \in AssetSlots |-> <<>>],
                                     TargetOf("s2"), prior)
    /\ submitted = {}
    /\ seenDup = {}
    /\ sinkTick = FALSE
    /\ sinkScan = ""
    /\ sinkOutcome = ""
    /\ StepIdle

StepInit ==
    /\ StepStart
    /\ LifeStart /\ StreamIdle /\ AssetIdle /\ RaceIdle /\ ProvIdle
    /\ QuickIdle /\ DirIdle /\ DelIdle /\ RunIdle
    /\ WorkerIdle /\ TimeoutIdle /\ LazyIdle /\ EntryIdle

StepNext ==
    \/ \E scan \in Scans : \E items \in Batches(sinkPath) : SubmitBatch(scan, items)
    \/ CheckScanExists
    \/ StepSaveSnapshots
    \/ StepSyncAssets
    \/ DatabaseErrorRaised
    \/ \E scan \in Scans : SoftDelete(scan)

SpecSinkSteps == StepInit /\ [][StepNext]_vars

\* C34: once the soft-delete of a scan has committed, no statement of a sink
\* call for that scan changes the snapshot table or the asset table, also
\* when the call passed its scan-exists check before the soft-delete.
C34_NoWriteAfterSoftDelete ==
    [][(sinkScan \in deleted /\ sinkPc \in {"checked", "snapshots_saved"})
          => (snapRows' = snapRows /\ assetRows' = assetRows)]_vars

\* C38: a batch that is saved after attempts that failed before or after the
\* snapshot insert leaves both tables as one successful submission of that
\* batch to the tables found at its first attempt leaves them, with at most
\* one row per unique key.
C38_RetryIsIdempotent ==
    (sinkPc = "done" /\ sinkOutcome = "saved")
        => /\ snapRows = save_snapshots(preSnap, sinkScan, sinkItems)
           /\ assetRows = sync_assets(sinkPath, preAsset, TargetOf(sinkScan), sinkItems)
           /\ \A slot \in Slots : Len(snapRows[slot]) <= 1
           /\ \A slot \in AssetSlots : Len(assetRows[slot]) <= 1

\* a batch was saved at a retry after its snapshot rows had been written and
\* the asset upsert had not; it names a key the asset table held with
\* another value
C38_Witness ==
    /\ sinkPc = "done"
    /\ sinkOutcome = "saved"
    /\ sinkPath = "endpoint"
    /\ sinkAttempt >= 1
    /\ "partial" \in sinkEvents
    /\ \E i \in 1..Len(sinkItems) :
          LET slot == <<TargetOf(sinkScan), sinkItems[i].key>>
          IN  /\ preAsset[slot] # <<>>
              /\ preAsset[slot] # assetRows[slot]

(***************************************************************************)
(* From the scan views to the provider: ScanViewSet.quick / .initiate ->   *)
(* ScanService.create_scans -> Scan row -> _create_provider                *)
(***************************************************************************)
EntryPoints == {"quick", "initiate"}

\* the keyword arguments the view passes to scan_service.create_scans
\* (quick: scan_views.py 165-170, initiate: 262-267), by parameter name
ViewKwargs(view) ==
    [targets |-> "targets", engine_ids |-> "engine_ids",
     engine_names |-> "engine_names", yaml_configuration |-> "configuration"]

\* create_scans(..., scan_mode: str = 'full'): the mode written to the row
create_scans_mode(kwargs) ==
    IF "scan_mode" \in DOMAIN kwargs THEN kwargs.scan_mode ELSE FULL

\* _create_provider(scan, target_id, scan_id)
create_provider(mode) ==
    IF mode = QUICK THEN "SnapshotTargetProvider" ELSE "DatabaseTargetProvider"

\* the view calls create_scans, which persists the Scan row
ViewCreateScans ==
    /\ entryPc = "request"
    /\ scan_mode' = create_scans_mode(ViewKwargs(entryPoint))
    /\ entryPc' = "created"
    /\ UNCHANGED <<entryPoint, providerKind, provScan, snapshots, stageRan,
                   stageOutcome, stageInput, nonEntryVars>>

\* initiate_scan_flow creates the provider for the row
CreateProvider ==
    /\ entryPc = "created"
    /\ providerKind' = create_provider(scan_mode)
    /\ entryPc' = "running"
    /\ UNCHANGED <<entryPoint, scan_mode, provScan, snapshots, stageRan,
                   stageOutcome, stageInput, nonEntryVars>>

\* a stage consumes an iterator of the provider the flow created
EntryProviderIter ==
    /\ entryPc = "running"
    /\ ProviderIter

EntryStart ==
    /\ entryPoint \in EntryPoints
    /\ entryPc = "request"
    /\ providerKind = ""
    /\ scan_mode = FULL
    /\ QuickStores0

EntryInit ==
    /\ EntryStart
    /\ LifeStart /\ StreamIdle /\ SinkIdle /\ AssetIdle /\ RaceIdle
    /\ DirIdle /\ DelIdle /\ RunIdle
    /\ WorkerIdle /\ TimeoutIdle /\ LazyIdle /\ StepIdle

EntryNext == ViewCreateScans \/ CreateProvider \/ EntryProviderIter

SpecEntry == EntryInit /\ [][EntryNext]_vars

\* C37: the row of a scan requested through the quick view carries mode
\* QUICK, and the orchestrator creates the Snapshot provider for it and
\* serves the stages from the scan's snapshot rows.
C37_QuickViewPersistsQuick ==
    (entryPoint = "quick" /\ entryPc # "request")
        => /\ scan_mode = QUICK
           /\ entryPc = "running" => providerKind = "SnapshotTargetProvider"
           /\ iterCalled # "" => emitted = SnapshotYields(iterCalled)

(***************************************************************************)
(* The dispatcher thread keeps running                                     *)
(***************************************************************************)
\* The background thread started by create_scans runs the loop of
\* _distribute_scans_to_workers to its end: each of its steps is taken once
\* it can be.  Nothing obliges a user to stop a scan or a worker to start
\* the flow, so no other action is fair.
DispatcherFairness ==
    /\ WF_vars(DispatchCall)
    /\ WF_vars(DispatchReturnOk \/ DispatchReturnFail)
    /\ WF_vars(DispatchRecord)

SpecLifecycleFair == LifeInit /\ [][LifeNext]_vars /\ DispatcherFairness

\* C35: a scan row that create_scans stored and queued for the dispatcher
\* eventually has a container recorded on it or has left INITIATED.
C35_CreatedScanLeavesInitiated ==
    (status = INITIATED /\ dispatch = "queued") ~> (container \/ status # INITIATED)
====
